---- MODULE Spec2Model ----
(***************************************************************************)
(* Review aggregation, cart management, order building and order life     *)
(* cycle, the auth gate and the accessory routes of the aquarium shop      *)
(* backend (src/routes/fullMarineSetup.js, products.js, cart.js,           *)
(* orders.js, accessories.js, middleware/auth.js), as a state machine over *)
(* the document collections.                                               *)
(*                                                                         *)
(* Optional JavaScript values are sequences of length <= 1: <<>> is        *)
(* undefined, <<v>> is the value v.                                        *)
(***************************************************************************)
EXTENDS Integers, Sequences, FiniteSets

VARIABLES accounts, clock, setups, products, accessories, categories, carts, orders, req, res,
          accepted, inflight

vars == <<accounts, clock, setups, products, accessories, categories, carts, orders, req, res,
         accepted, inflight>>

Undefined == <<>>

Some(v) == <<v>>

(***************************************************************************)
(* Bounds of the model.                                                    *)
(***************************************************************************)
MaxRating == 3

MaxReviews == 2

MaxLines == 2

MaxQty == 2

MaxCartQty == 2

MaxOrders == 2

(***************************************************************************)
(* ObjectIds.  An ObjectId is its sequence of hex digit values; a request   *)
(* carries an id as text, a sequence of one-character strings.  Casting    *)
(* text to an ObjectId parses the hex digits of either case; toString()    *)
(* prints them in lower case.                                              *)
(***************************************************************************)
HexLower == <<"0", "1", "2", "3", "4", "5", "6", "7", "8", "9", "a", "b", "c", "d", "e", "f">>

HexUpper == <<"0", "1", "2", "3", "4", "5", "6", "7", "8", "9", "A", "B", "C", "D", "E", "F">>

IsHexChar(c) == \E v \in 1..16 : HexLower[v] = c \/ HexUpper[v] = c

HexVal(c) == (CHOOSE v \in 1..16 : HexLower[v] = c \/ HexUpper[v] = c) - 1

\* mongoose's cast of a request string to an ObjectId: <<oid>>, or <<>> for a CastError
CastObjectId(text) ==
    IF Len(text) > 0 /\ \A i \in 1..Len(text) : IsHexChar(text[i])
    THEN Some([i \in 1..Len(text) |-> HexVal(text[i])])
    ELSE Undefined

\* ObjectId.prototype.toString(): the lower-case hex text
OidToString(oid) == [i \in 1..Len(oid) |-> HexLower[oid[i] + 1]]

(***************************************************************************)
(* Principals: the user documents the auth gate attaches to a request.     *)
(***************************************************************************)
Users ==
    { [_id |-> <<1>>, name |-> "ann", isAdmin |-> FALSE],
      [_id |-> <<2>>, name |-> "bob", isAdmin |-> TRUE] }

\* ids of the catalog documents, and the id texts requests carry
SetupIds == { <<10>> }

ProductIds == { <<11>> }

AccessoryIds == { <<12>> }

\* "a" and "A" spell the same ObjectId, "b" another one, "g" is no ObjectId
IdTexts == { <<"a">>, <<"A">>, <<"b">>, <<"g">> }

\* requests in flight at once in the interleaved specification
Slots == { 1, 2 }

Ratings == 1..MaxRating

\* the inputs of the interleaved specification: an existing and an absent item
RaceIdTexts == { <<"a">>, <<"b">> }

RaceRatings == { 1, MaxRating }

(***************************************************************************)
(* Numbers.  A stored rating is the quotient sum / length of small         *)
(* integers; it is kept as the fraction in lowest terms.                   *)
(***************************************************************************)
RECURSIVE Gcd(_, _)
Gcd(a, b) == IF b = 0 THEN a ELSE Gcd(b, a % b)

Quot(a, b) == [num |-> a \div Gcd(a, b), den |-> b \div Gcd(a, b)]

Zero == [num |-> 0, den |-> 1]

RECURSIVE SumRatings(_)
\* reviews.reduce((acc, item) => item.rating + acc, 0)
SumRatings(reviews) ==
    IF reviews = <<>> THEN 0
    ELSE reviews[Len(reviews)].rating + SumRatings(SubSeq(reviews, 1, Len(reviews) - 1))

Response(status, message) == [status |-> status, message |-> message, items |-> <<>>]

NoResponse == Response(0, "")

Idle == [op |-> "idle"]

(***************************************************************************)
(* Catalog: full-marine-setup documents carry a review list; the product   *)
(* schema (src/models/Policy.js, productSchema) declares no reviews path,  *)
(* so a loaded product document has reviews undefined.                     *)
(***************************************************************************)
\* new FullMarineSetup({ ..., numReviews: 0, rating: 0 }), with no review yet
NewSetup == [reviews |-> <<>>, numReviews |-> 0, rating |-> Zero]

\* new Product({ ..., numReviews: 0, rating: 0 }); productSchema has no reviews path
NewProduct == [price |-> 10, reviews |-> Undefined, numReviews |-> 0, rating |-> Zero]

\* Model.findById(id) on a collection keyed by ObjectId: <<doc>> or <<>> (null)
FindById(coll, oid) == IF oid \in DOMAIN coll THEN coll[oid] ELSE Undefined

\* faulty variant: the ObjectIds compared as objects (r.user === req.user._id), never equal
AlreadyReviewedByReference(reviews, user) == FALSE

\* product.reviews.find((r) => r.user.toString() === req.user._id.toString())
AlreadyReviewed(reviews, user) ==
    \E i \in 1..Len(reviews) : OidToString(reviews[i].user) = OidToString(user._id)

NewReview(user, rating) == [name |-> user.name, rating |-> rating, user |-> user._id]

\* faulty variant: numReviews taken before the push
WithReviewCountBeforePush(product, review) ==
    LET reviews == Append(product.reviews, review)
    IN  [reviews |-> reviews,
         numReviews |-> Len(product.reviews),
         rating |-> Quot(SumRatings(reviews), Len(reviews))]

\* push the review, then recompute numReviews and rating on the loaded document
WithReview(product, review) ==
    LET reviews == Append(product.reviews, review)
    IN  [reviews |-> reviews,
         numReviews |-> Len(reviews),
         rating |-> Quot(SumRatings(reviews), Len(reviews))]

\* product.save() after a push: mongoose sends the pushed element ($push) and
\* the modified scalar paths ($set) to the stored document
SaveReviewed(stored, doc, review) ==
    [reviews |-> Append(stored.reviews, review),
     numReviews |-> doc.numReviews,
     rating |-> doc.rating]

ReviewReq(op, user, idText, rating) ==
    [op |-> op, user |-> user, id |-> idText, rating |-> rating]

\* POST /api/full-marine-setup/:id/reviews (protect), run without interleaving
SetupAddReview(user, idText, rating) ==
    LET cast == CastObjectId(idText)
        found == FindById(setups, cast[1])
        review == NewReview(user, rating)
    IN  /\ req' = ReviewReq("setupAddReview", Some(user._id), idText, rating)
        /\ UNCHANGED <<accounts, clock, products, accessories, categories, carts, orders, inflight>>
        /\ IF cast = Undefined
           THEN /\ res' = Response(500, "CastError")
                /\ UNCHANGED <<setups, accepted>>
           ELSE IF found = Undefined
           THEN /\ res' = Response(404, "Product not found")
                /\ UNCHANGED <<setups, accepted>>
           ELSE IF AlreadyReviewed(found[1].reviews, user)
           THEN /\ res' = Response(400, "Product already reviewed")
                /\ UNCHANGED <<setups, accepted>>
           ELSE /\ setups' = [setups EXCEPT ![cast[1]] =
                        Some(SaveReviewed(found[1], WithReview(found[1], review), review))]
                /\ accepted' = [accepted EXCEPT ![cast[1]] = Append(@, rating)]
                /\ res' = Response(201, "Review added")

\* the reads of the products handler that throw a TypeError: reviews of a
\* document without that path, and req.user on a route without protect
ProductReviewThrows(product, reqUser) ==
    product.reviews = Undefined \/ reqUser = Undefined

\* POST /api/products/:id/reviews: registered without protect, so req.user is undefined
ProductAddReview(idText, rating) ==
    LET reqUser == Undefined
        cast == CastObjectId(idText)
        found == FindById(products, cast[1])
    IN  /\ req' = ReviewReq("productAddReview", reqUser, idText, rating)
        /\ UNCHANGED <<accounts, clock, setups, accessories, categories, carts, orders, inflight>>
        /\ IF cast = Undefined
           THEN /\ res' = Response(500, "CastError")
                /\ UNCHANGED <<products, accepted>>
           ELSE IF found = Undefined
           THEN /\ res' = Response(404, "Product not found")
                /\ UNCHANGED <<products, accepted>>
           ELSE IF ProductReviewThrows(found[1], reqUser)
           THEN /\ res' = Response(500, "TypeError")
                /\ UNCHANGED <<products, accepted>>
           ELSE IF AlreadyReviewed(found[1].reviews[1], reqUser[1])
           THEN /\ res' = Response(400, "Product already reviewed")
                /\ UNCHANGED <<products, accepted>>
           ELSE LET doc == [found[1] EXCEPT !.reviews = @[1]]
                    review == NewReview(reqUser[1], rating)
                    saved == SaveReviewed(doc, WithReview(doc, review), review)
                IN  /\ products' = [products EXCEPT ![cast[1]] =
                            Some([saved EXCEPT !.reviews = Some(@)])]
                    /\ accepted' = [accepted EXCEPT ![cast[1]] = Append(@, rating)]
                    /\ res' = Response(201, "Review added")

\* admin middleware: next() only for req.user.isAdmin
IsAdmin(user) == user.isAdmin

\* POST /api/full-marine-setup (protect, admin): without an image 400, else a
\* new document with rating 0 and numReviews 0
CreateSetup(user, hasImage) ==
    /\ req' = [op |-> "createSetup", user |-> Some(user._id), image |-> hasImage]
    /\ UNCHANGED <<accounts, clock, products, accessories, categories, carts, orders, accepted, inflight>>
    /\ IF ~IsAdmin(user)
       THEN /\ res' = Response(401, "Not authorized as an admin")
            /\ UNCHANGED setups
       ELSE IF ~hasImage
       THEN /\ res' = Response(400, "Product image is required")
            /\ UNCHANGED setups
       ELSE /\ \E oid \in SetupIds :
                 /\ setups[oid] = Undefined
                 /\ setups' = [setups EXCEPT ![oid] = Some(NewSetup)]
            /\ res' = Response(201, "created")

\* POST /api/products (protect, admin): without an uploaded file or a category
\* 400, else a new document with rating 0 and numReviews 0
CreateProduct(user, hasFiles, hasCategory) ==
    /\ req' = [op |-> "createProduct", user |-> Some(user._id), files |-> hasFiles,
               category |-> hasCategory]
    /\ UNCHANGED <<accounts, clock, setups, accessories, categories, carts, orders, accepted, inflight>>
    /\ IF ~IsAdmin(user)
       THEN /\ res' = Response(401, "Not authorized as an admin")
            /\ UNCHANGED products
       ELSE IF ~hasFiles
       THEN /\ res' = Response(400, "At least one image is required")
            /\ UNCHANGED products
       ELSE IF ~hasCategory
       THEN /\ res' = Response(400, "Invalid category")
            /\ UNCHANGED products
       ELSE /\ \E oid \in ProductIds :
                 /\ products[oid] = Undefined
                 /\ products' = [products EXCEPT ![oid] = Some(NewProduct)]
            /\ res' = Response(201, "created")

\* the prices and the id texts a product update carries
UpdatePrices == { 10, 12 }

ProductIdTexts == { <<"b">>, <<"c">> }

\* PUT /api/products/:id (protect, admin): product.price = price; product.save();
\* rating, numReviews and reviews are not written
UpdateProduct(user, text, price) ==
    /\ req' = [op |-> "updateProduct", user |-> Some(user._id), id |-> text, price |-> price]
    /\ UNCHANGED <<accounts, clock, setups, accessories, categories, carts, orders, accepted, inflight>>
    /\ LET cast == CastObjectId(text)
       IN  IF ~IsAdmin(user)
           THEN /\ res' = Response(401, "Not authorized as an admin")
                /\ UNCHANGED products
           ELSE IF cast = Undefined
           THEN /\ res' = Response(500, "CastError")
                /\ UNCHANGED products
           ELSE IF FindById(products, cast[1]) = Undefined
           THEN /\ res' = Response(404, "Product not found")
                /\ UNCHANGED products
           ELSE /\ products' = [products EXCEPT ![cast[1]] =
                                    Some([products[cast[1]][1] EXCEPT !.price = price])]
                /\ res' = Response(200, "updated")

(***************************************************************************)
(* The same review handler as two steps, for requests that interleave: the *)
(* await of findById ends the first step, the rest runs up to save().      *)
(***************************************************************************)
\* up to `await FullMarineSetup.findById(req.params.id)`, and the 404 / 500 answers
ReviewLoad(slot, user, idText, rating) ==
    LET cast == CastObjectId(idText)
        found == FindById(setups, cast[1])
    IN  /\ inflight[slot] = Idle
        /\ UNCHANGED <<accounts, clock, setups, products, accessories, categories, carts, orders, accepted>>
        /\ IF cast = Undefined
           THEN /\ req' = ReviewReq("setupAddReview", Some(user._id), idText, rating)
                /\ res' = Response(500, "CastError")
                /\ UNCHANGED inflight
           ELSE IF found = Undefined
           THEN /\ req' = ReviewReq("setupAddReview", Some(user._id), idText, rating)
                /\ res' = Response(404, "Product not found")
                /\ UNCHANGED inflight
           ELSE /\ Len(found[1].reviews) < MaxReviews
                /\ inflight' = [inflight EXCEPT ![slot] =
                        [op |-> "review", user |-> user, id |-> idText,
                         rating |-> rating, product |-> found[1]]]
                /\ UNCHANGED <<req, res>>

\* from the loaded document to the response: the alreadyReviewed scan, push, save
ReviewSave(slot) ==
    LET r == inflight[slot]
        oid == CastObjectId(r.id)[1]
        review == NewReview(r.user, r.rating)
    IN  /\ inflight[slot] # Idle
        /\ inflight' = [inflight EXCEPT ![slot] = Idle]
        /\ req' = ReviewReq("setupAddReview", Some(r.user._id), r.id, r.rating)
        /\ UNCHANGED <<accounts, clock, products, accessories, categories, carts, orders>>
        /\ IF AlreadyReviewed(r.product.reviews, r.user)
           THEN /\ res' = Response(400, "Product already reviewed")
                /\ UNCHANGED <<setups, accepted>>
           ELSE /\ setups' = [setups EXCEPT ![oid] =
                        Some(SaveReviewed(setups[oid][1], WithReview(r.product, review), review))]
                /\ accepted' = [accepted EXCEPT ![oid] = Append(@, r.rating)]
                /\ res' = Response(201, "Review added")

(***************************************************************************)
(* Cart manager (src/routes/cart.js).  The Cart collection is the sequence *)
(* of its documents in insertion order; a document is [user, items] and an *)
(* item is [product, name, price, image, quantity].                        *)
(***************************************************************************)
CartResponse(status, items) == [status |-> status, message |-> "cart", items |-> items]

Result(cs, response) == [carts |-> cs, res |-> response]

\* Cart.findOne({ user: req.user._id }): <<index>> of the first match, or <<>> (null)
FindCart(cs, userId) ==
    IF \E i \in 1..Len(cs) : cs[i].user = userId
    THEN Some(CHOOSE i \in 1..Len(cs) :
                 /\ cs[i].user = userId
                 /\ \A j \in 1..(i - 1) : cs[j].user # userId)
    ELSE Undefined

\* items.find / items.findIndex(item => item.product.toString() === productId):
\* <<index>> of the first line whose id prints as the request's text, or <<>>
FindLine(items, text) ==
    IF \E i \in 1..Len(items) : OidToString(items[i].product) = text
    THEN Some(CHOOSE i \in 1..Len(items) :
                 /\ OidToString(items[i].product) = text
                 /\ \A j \in 1..(i - 1) : OidToString(items[j].product) # text)
    ELSE Undefined

\* items.splice(index, 1)
Splice(items, index) ==
    SubSeq(items, 1, index - 1) \o SubSeq(items, index + 1, Len(items))

RECURSIVE FilterOut(_, _)
\* items.filter(item => item.product.toString() !== productId)
FilterOut(items, text) ==
    IF items = <<>> THEN <<>>
    ELSE IF OidToString(Head(items).product) # text
         THEN <<Head(items)>> \o FilterOut(Tail(items), text)
         ELSE FilterOut(Tail(items), text)

\* const { productId, name, price, image, quantity = 1 } = req.body
QuantityOrDefault(body) == IF body.quantity = Undefined THEN 1 ELSE body.quantity[1]

\* the Cart schema's items.product path is a product reference: the request's
\* text is cast to an ObjectId when the item is built, <<>> when it is none
CartItemProduct(text) == CastObjectId(text)

\* the item subdocument built from the request
NewLine(body) ==
    [product |-> CartItemProduct(body.productId)[1],
     name |-> body.name, price |-> body.price, image |-> body.image,
     quantity |-> QuantityOrDefault(body)]

\* GET /api/cart
GetCartResult(cs, userId) ==
    LET found == FindCart(cs, userId)
    IN  IF found # Undefined
        THEN Result(cs, CartResponse(200, cs[found[1]].items))
        ELSE Result(cs, [status |-> 200, message |-> "empty", items |-> <<>>])

\* POST /api/cart
AddItemResult(cs, userId, body) ==
    LET found == FindCart(cs, userId)
        invalid == CartItemProduct(body.productId) = Undefined
    IN  IF found = Undefined
        THEN IF invalid
             THEN Result(cs, Response(500, "Cart validation failed"))
             ELSE Result(Append(cs, [user |-> userId, items |-> <<NewLine(body)>>]),
                         CartResponse(201, <<NewLine(body)>>))
        ELSE LET cart == cs[found[1]]
                 existingItem == FindLine(cart.items, body.productId)
                 items == IF existingItem # Undefined
                          THEN [cart.items EXCEPT ![existingItem[1]].quantity =
                                    @ + QuantityOrDefault(body)]
                          ELSE Append(cart.items, NewLine(body))
             IN  IF existingItem = Undefined /\ invalid
                 THEN Result(cs, Response(500, "Cart validation failed"))
                 ELSE Result([cs EXCEPT ![found[1]].items = items],
                             CartResponse(201, items))

\* PUT /api/cart/:productId
SetQuantityResult(cs, userId, text, quantity) ==
    LET found == FindCart(cs, userId)
    IN  IF found = Undefined
        THEN Result(cs, Response(404, "Cart not found"))
        ELSE LET cart == cs[found[1]]
                 itemIndex == FindLine(cart.items, text)
                 items == IF quantity <= 0
                          THEN Splice(cart.items, itemIndex[1])
                          ELSE [cart.items EXCEPT ![itemIndex[1]].quantity = quantity]
             IN  IF itemIndex = Undefined
                 THEN Result(cs, Response(404, "Item not found in cart"))
                 ELSE Result([cs EXCEPT ![found[1]].items = items],
                             CartResponse(200, items))

\* faulty variant: an absent product is reported like setQuantity reports it
RemoveItemStrictResult(cs, userId, text) ==
    LET found == FindCart(cs, userId)
    IN  IF found = Undefined
        THEN Result(cs, Response(404, "Cart not found"))
        ELSE LET items == FilterOut(cs[found[1]].items, text)
             IN  IF items = cs[found[1]].items
                 THEN Result(cs, Response(404, "Item not found in cart"))
                 ELSE Result([cs EXCEPT ![found[1]].items = items],
                             CartResponse(200, items))

\* DELETE /api/cart/:productId
RemoveItemResult(cs, userId, text) ==
    LET found == FindCart(cs, userId)
    IN  IF found = Undefined
        THEN Result(cs, Response(404, "Cart not found"))
        ELSE LET items == FilterOut(cs[found[1]].items, text)
             IN  Result([cs EXCEPT ![found[1]].items = items],
                        CartResponse(200, items))

\* faulty variant: the cart is emptied (items = []) and kept
ClearCartEmptiedResult(cs, userId) ==
    LET found == FindCart(cs, userId)
    IN  Result(IF found = Undefined THEN cs ELSE [cs EXCEPT ![found[1]].items = <<>>],
               Response(200, "Cart cleared"))

\* DELETE /api/cart: Cart.findOneAndDelete({ user }) removes the first match, if any
ClearCartResult(cs, userId) ==
    LET found == FindCart(cs, userId)
    IN  Result(IF found = Undefined THEN cs ELSE Splice(cs, found[1]),
               Response(200, "Cart cleared"))

\* the bounds of the model on a cart collection
WithinCartBounds(cs) ==
    \A i \in 1..Len(cs) :
        /\ Len(cs[i].items) <= MaxLines
        /\ \A k \in 1..Len(cs[i].items) : cs[i].items[k].quantity <= MaxCartQty

\* the denormalized name / price / image a request may carry
Snapshots ==
    { [name |-> "clownfish", price |-> 1, image |-> "/uploads/1.png"],
      [name |-> "blue tang", price |-> 2, image |-> "/uploads/2.png"] }

AddQuantities == { Undefined } \cup { Some(q) : q \in 1..MaxQty }

SetQuantities == (0 - 1)..MaxQty

\* the principals that shop: they fill carts and place orders
Customers == { u \in Users : ~u.isAdmin }

\* a cart handler's effect: the collection it leaves and the response it sends
CartStep(result) ==
    /\ carts' = result.carts
    /\ res' = result.res
    /\ UNCHANGED <<accounts, clock, setups, products, accessories, categories, orders, accepted, inflight>>

GetCart(user) ==
    /\ req' = [op |-> "getCart", user |-> Some(user._id)]
    /\ CartStep(GetCartResult(carts, user._id))

AddItem(user, text, snapshot, quantity) ==
    LET body == [productId |-> text, name |-> snapshot.name, price |-> snapshot.price,
                 image |-> snapshot.image, quantity |-> quantity]
        result == AddItemResult(carts, user._id, body)
    IN  /\ WithinCartBounds(result.carts)
        /\ req' = [op |-> "addItem", user |-> Some(user._id), body |-> body]
        /\ CartStep(result)

\* the quantities of any sign an addItem request may carry
SignedQuantities == { Some(q) : q \in (0 - 1)..1 }

\* the bounds of the model on a cart collection built with such quantities
WithinSignedBounds(cs) ==
    \A i \in 1..Len(cs) :
        /\ Len(cs[i].items) <= MaxLines
        /\ \A k \in 1..Len(cs[i].items) :
              /\ cs[i].items[k].quantity <= MaxCartQty
              /\ cs[i].items[k].quantity >= 0 - MaxCartQty

\* POST /api/cart with a quantity of any sign
AddItemSigned(user, text, quantity) ==
    LET body == [productId |-> text, name |-> "clownfish", price |-> 1,
                 image |-> "/uploads/1.png", quantity |-> quantity]
        result == AddItemResult(carts, user._id, body)
    IN  /\ WithinSignedBounds(result.carts)
        /\ req' = [op |-> "addItem", user |-> Some(user._id), body |-> body]
        /\ CartStep(result)

SetQuantity(user, text, quantity) ==
    /\ req' = [op |-> "setQuantity", user |-> Some(user._id), id |-> text,
               quantity |-> quantity]
    /\ CartStep(SetQuantityResult(carts, user._id, text, quantity))

RemoveItem(user, text) ==
    /\ req' = [op |-> "removeItem", user |-> Some(user._id), id |-> text]
    /\ CartStep(RemoveItemResult(carts, user._id, text))

ClearCart(user) ==
    /\ req' = [op |-> "clearCart", user |-> Some(user._id)]
    /\ CartStep(ClearCartResult(carts, user._id))

(***************************************************************************)
(* Order builder (src/routes/orders.js, POST /api/orders).  An order line  *)
(* of a request is [price, qty], each optional; the Order collection is    *)
(* the sequence of the stored orders.                                      *)
(***************************************************************************)
\* JavaScript truthiness of an optional number: undefined and 0 are falsy
Falsy(n) == n = Undefined \/ n = Some(0)

\* n || 0
OrZero(n) == IF Falsy(n) THEN 0 ELSE n[1]

\* faulty variant: only a missing list is refused (!orderItems)
EmptyOrderItemsMissingOnly(body) == body.orderItems = Undefined

\* faulty variant: a missing list is refused like an empty one
\* (!orderItems || orderItems.length === 0)
EmptyOrderItemsOrMissing(body) ==
    body.orderItems = Undefined \/ Len(body.orderItems[1]) = 0

\* orderItems && orderItems.length === 0
EmptyOrderItems(body) ==
    body.orderItems # Undefined /\ Len(body.orderItems[1]) = 0

\* faulty variant: a missing qty counts as one unit (item.qty || 1)
ItemTotalQtyOne(item) == OrZero(item.price) * (IF Falsy(item.qty) THEN 1 ELSE item.qty[1])

\* const itemTotal = (item.price || 0) * (item.qty || 0)
ItemTotal(item) == OrZero(item.price) * OrZero(item.qty)

RECURSIVE ReduceItems(_, _)
\* orderItems.reduce((total, item) => total + itemTotal, 0)
ReduceItems(items, total) ==
    IF items = <<>> THEN total
    ELSE ReduceItems(Tail(items), total + ItemTotal(Head(items)))

\* the subtotal is derived: !itemsPrice || itemsPrice === 0
DerivesItemsPrice(body) == Falsy(body.itemsPrice) \/ body.itemsPrice = Some(0)

\* calculatedItemsPrice, for a request whose orderItems is an array when it is read
CalculatedItemsPrice(body) ==
    IF DerivesItemsPrice(body)
    THEN ReduceItems(body.orderItems[1], 0)
    ELSE body.itemsPrice[1]

\* faulty variant: the derived total includes the tax
CalculatedTotalPriceWithTax(body) ==
    IF Falsy(body.totalPrice) \/ body.totalPrice = Some(0)
    THEN CalculatedItemsPrice(body) + OrZero(body.shippingPrice) + OrZero(body.taxPrice)
    ELSE body.totalPrice[1]

\* calculatedTotalPrice
CalculatedTotalPrice(body) ==
    IF Falsy(body.totalPrice) \/ body.totalPrice = Some(0)
    THEN CalculatedItemsPrice(body) + OrZero(body.shippingPrice)
    ELSE body.totalPrice[1]

\* new Order({ orderItems, user, ..., totalPrice: calculatedTotalPrice })
NewOrder(userId, body) ==
    [user |-> userId,
     orderItems |-> body.orderItems,
     shippingAddress |-> body.shippingAddress,
     paymentMethod |-> body.paymentMethod,
     itemsPrice |-> CalculatedItemsPrice(body),
     taxPrice |-> OrZero(body.taxPrice),
     shippingPrice |-> OrZero(body.shippingPrice),
     totalPrice |-> CalculatedTotalPrice(body)]

\* the _id of the n-th order document: a, b, c, ... as hex text
OrderIdAt(n) == <<9 + n>>

\* the document order.save() stores under the id oid: the lines copied as
\* given (none for a missing list), unpaid, undelivered, pending; no line is
\* refused
StoredOrder(order, oid) ==
    [_id |-> oid,
     user |-> order.user,
     orderItems |-> IF order.orderItems = Undefined THEN <<>> ELSE order.orderItems[1],
     shippingAddress |-> order.shippingAddress,
     paymentMethod |-> order.paymentMethod,
     itemsPrice |-> order.itemsPrice,
     taxPrice |-> order.taxPrice,
     shippingPrice |-> order.shippingPrice,
     totalPrice |-> order.totalPrice,
     isPaid |-> FALSE,
     paidAt |-> Undefined,
     paymentResult |-> Undefined,
     isDelivered |-> FALSE,
     deliveredAt |-> Undefined,
     status |-> "pending"]

OrderResult(os, response) == [orders |-> os, res |-> response]

\* POST /api/orders
CreateOrderResult(os, userId, body) ==
    IF EmptyOrderItems(body)
    THEN OrderResult(os, Response(400, "No order items"))
    ELSE IF DerivesItemsPrice(body) /\ body.orderItems = Undefined
    THEN OrderResult(os, Response(500, "TypeError"))
    ELSE OrderResult(Append(os, StoredOrder(NewOrder(userId, body), OrderIdAt(Len(os) + 1))), Response(201, "order"))

\* the order lines a request may carry
LineA == [price |-> Some(10), qty |-> Some(2)]

LineB == [price |-> Some(5), qty |-> Some(1)]

LineNoPrice == [price |-> Undefined, qty |-> Some(3)]

LineNoQty == [price |-> Some(4), qty |-> Undefined]

OrderItemsInputs ==
    { Undefined, Some(<<>>), Some(<<LineA>>), Some(<<LineA, LineB>>),
      Some(<<LineNoPrice>>), Some(<<LineB, LineNoQty>>), Some(<<LineNoPrice, LineA>>) }

\* the prices a request may carry beside its lines
PriceProfiles ==
    { [itemsPrice |-> Undefined, taxPrice |-> Undefined, shippingPrice |-> Undefined,
       totalPrice |-> Undefined],
      [itemsPrice |-> Some(0), taxPrice |-> Some(3), shippingPrice |-> Some(5),
       totalPrice |-> Undefined],
      [itemsPrice |-> Some(7), taxPrice |-> Undefined, shippingPrice |-> Undefined,
       totalPrice |-> Some(0)],
      [itemsPrice |-> Some(7), taxPrice |-> Some(3), shippingPrice |-> Some(5),
       totalPrice |-> Some(40)],
      [itemsPrice |-> Undefined, taxPrice |-> Undefined, shippingPrice |-> Some(5),
       totalPrice |-> Some(40)] }

OrderBodies ==
    { [orderItems |-> items, shippingAddress |-> "reef lane", paymentMethod |-> "card",
       itemsPrice |-> p.itemsPrice, taxPrice |-> p.taxPrice,
       shippingPrice |-> p.shippingPrice, totalPrice |-> p.totalPrice] :
         items \in OrderItemsInputs, p \in PriceProfiles }

CreateOrder(user, body) ==
    LET result == CreateOrderResult(orders, user._id, body)
    IN  /\ Len(result.orders) <= MaxOrders
        /\ req' = [op |-> "createOrder", user |-> Some(user._id), body |-> body]
        /\ orders' = result.orders
        /\ res' = result.res
        /\ UNCHANGED <<accounts, clock, setups, products, accessories, categories, carts, accepted, inflight>>

(***************************************************************************)
(* Orders after creation (src/routes/orders.js): reading one, marking it   *)
(* paid or delivered, setting its status, listing.  The principal is the   *)
(* user document the auth gate attached to the request.                    *)
(***************************************************************************)
\* the id texts order requests carry: two stored orders, a well-formed id of
\* no order, and a text that is no ObjectId
OrderIdTexts == { <<"a">>, <<"b">>, <<"c">>, <<"g">> }

\* Date.now() as a handler reads it: a time after every order's creation
Times == { 1 }

\* the status values the Order schema stores
Statuses == { "pending", "confirmed", "shipped", "delivered" }

\* Order.findById(id): the position of the document as <<i>>, or <<>> (null)
FindOrder(os, oid) ==
    IF \E i \in 1..Len(os) : os[i]._id = oid
    THEN Some(CHOOSE i \in 1..Len(os) : os[i]._id = oid)
    ELSE Undefined

\* .populate('user', 'name email'): the owner's document in place of its id,
\* null when no such user is stored
Populate(order) ==
    [order EXCEPT !.user =
        IF \E u \in Users : u._id = order.user
        THEN Some([_id |-> order.user,
                   name |-> (CHOOSE u \in Users : u._id = order.user).name])
        ELSE Undefined]

OrderResponse(status, docs) == [status |-> status, message |-> "order", items |-> docs]

\* the admin middleware in front of a handler
NotAdminResponse == Response(401, "Not authorized as an admin")

\* GET /api/orders/:id
GetByIdResult(os, user, text) ==
    LET cast == CastObjectId(text)
    IN  IF cast = Undefined
        THEN OrderResult(os, Response(500, "Server error while fetching order"))
        ELSE LET found == FindOrder(os, cast[1])
             IN  IF found = Undefined
                 THEN OrderResult(os, Response(404, "Order not found"))
                 ELSE LET order == Populate(os[found[1]])
                      IN  IF order.user = Undefined
                          THEN OrderResult(os, Response(500, "Server error while fetching order"))
                          ELSE IF OidToString(order.user[1]._id) # OidToString(user._id)
                                  /\ ~user.isAdmin
                          THEN OrderResult(os, Response(403, "Not authorized to view this order"))
                          ELSE OrderResult(os, OrderResponse(200, <<order>>))

\* GET /api/orders/myorders
MyOrdersResult(os, user) ==
    OrderResult(os, OrderResponse(200, SelectSeq(os, LAMBDA o : o.user = user._id)))

\* the payment payloads of PUT /api/orders/:id/pay, with and without a payer
PaymentBodies ==
    { [id |-> Some("pay-1"), status |-> Some("COMPLETED"), update_time |-> Some("t1"),
       payer |-> Some([email_address |-> Some("ann@reef")])],
      [id |-> Some("pay-2"), status |-> Some("COMPLETED"), update_time |-> Some("t2"),
       payer |-> Undefined] }

\* faulty variant: paying also rewrites the payment method and the total
PaidOrderRepriced(order, body, now) ==
    [order EXCEPT !.isPaid = TRUE,
                  !.paidAt = Some(now),
                  !.paymentMethod = "paid",
                  !.totalPrice = 0,
                  !.paymentResult = Some([id |-> body.id, status |-> body.status,
                                          update_time |-> body.update_time,
                                          email_address |-> body.payer[1].email_address])]

\* order.isPaid = true; order.paidAt = Date.now(); order.paymentResult = {...}
PaidOrder(order, body, now) ==
    [order EXCEPT !.isPaid = TRUE,
                  !.paidAt = Some(now),
                  !.paymentResult = Some([id |-> body.id, status |-> body.status,
                                          update_time |-> body.update_time,
                                          email_address |-> body.payer[1].email_address])]

\* PUT /api/orders/:id/pay; req.body.payer.email_address throws without a payer
MarkPaidResult(os, text, body, now) ==
    LET cast == CastObjectId(text)
    IN  IF cast = Undefined
        THEN OrderResult(os, Response(500, "CastError"))
        ELSE LET found == FindOrder(os, cast[1])
             IN  IF found = Undefined
                 THEN OrderResult(os, Response(404, "Order not found"))
                 ELSE IF body.payer = Undefined
                 THEN OrderResult(os, Response(500, "TypeError"))
                 ELSE LET updated == PaidOrder(os[found[1]], body, now)
                      IN  OrderResult([os EXCEPT ![found[1]] = updated],
                                      OrderResponse(200, <<updated>>))

\* faulty variant: the delivery is flagged and the status set, the date is not
DeliveredOrderUndated(order, now) ==
    [order EXCEPT !.isDelivered = TRUE, !.status = "delivered"]

\* order.isDelivered = true; order.deliveredAt = Date.now(); order.status = 'delivered'
DeliveredOrder(order, now) ==
    [order EXCEPT !.isDelivered = TRUE, !.deliveredAt = Some(now), !.status = "delivered"]

\* PUT /api/orders/:id/deliver
MarkDeliveredResult(os, user, text, now) ==
    LET cast == CastObjectId(text)
    IN  IF ~IsAdmin(user)
        THEN OrderResult(os, NotAdminResponse)
        ELSE IF cast = Undefined
        THEN OrderResult(os, Response(500, "CastError"))
        ELSE LET found == FindOrder(os, cast[1])
             IN  IF found = Undefined
                 THEN OrderResult(os, Response(404, "Order not found"))
                 ELSE LET updated == DeliveredOrder(os[found[1]], now)
                      IN  OrderResult([os EXCEPT ![found[1]] = updated],
                                      OrderResponse(200, <<updated>>))

\* faulty variant: going back to pending or confirmed keeps the delivery date
WithStatusKeepsDate(order, status, now) ==
    IF status = "delivered"
    THEN [order EXCEPT !.status = status, !.isDelivered = TRUE, !.deliveredAt = Some(now)]
    ELSE IF status = "pending" \/ status = "confirmed"
    THEN [order EXCEPT !.status = status, !.isDelivered = FALSE]
    ELSE [order EXCEPT !.status = status]

\* faulty variant: going back to pending also takes the payment back
WithStatusResetsPaid(order, status, now) ==
    IF status = "delivered"
    THEN [order EXCEPT !.status = status, !.isDelivered = TRUE, !.deliveredAt = Some(now)]
    ELSE IF status = "pending" \/ status = "confirmed"
    THEN [order EXCEPT !.status = status, !.isDelivered = FALSE, !.deliveredAt = Undefined,
                       !.isPaid = FALSE, !.paidAt = Undefined]
    ELSE [order EXCEPT !.status = status]

\* order.status = status, and the delivery fields that follow from it
WithStatus(order, status, now) ==
    IF status = "delivered"
    THEN [order EXCEPT !.status = status, !.isDelivered = TRUE, !.deliveredAt = Some(now)]
    ELSE IF status = "pending" \/ status = "confirmed"
    THEN [order EXCEPT !.status = status, !.isDelivered = FALSE, !.deliveredAt = Undefined]
    ELSE [order EXCEPT !.status = status]

\* PUT /api/orders/:id/status
SetStatusResult(os, user, text, status, now) ==
    LET cast == CastObjectId(text)
    IN  IF ~IsAdmin(user)
        THEN OrderResult(os, NotAdminResponse)
        ELSE IF cast = Undefined
        THEN OrderResult(os, Response(500, "CastError"))
        ELSE LET found == FindOrder(os, cast[1])
             IN  IF found = Undefined
                 THEN OrderResult(os, Response(404, "Order not found"))
                 ELSE LET updated == WithStatus(os[found[1]], status, now)
                      IN  OrderResult([os EXCEPT ![found[1]] = updated],
                                      OrderResponse(200, <<updated>>))

RECURSIVE Reverse(_)
Reverse(s) == IF s = <<>> THEN <<>> ELSE Append(Reverse(Tail(s)), Head(s))

\* GET /api/orders: every order, newest first
ListAllResult(os, user) ==
    IF ~IsAdmin(user)
    THEN OrderResult(os, NotAdminResponse)
    ELSE OrderResult(os, OrderResponse(200, Reverse([i \in 1..Len(os) |-> Populate(os[i])])))

\* an order handler's effect: the collection it leaves and the response it sends
OrderStep(result) ==
    /\ orders' = result.orders
    /\ res' = result.res
    /\ UNCHANGED <<accounts, clock, setups, products, accessories, categories, carts, accepted, inflight>>

GetById(user, text) ==
    /\ req' = [op |-> "getById", user |-> Some(user._id), id |-> text]
    /\ OrderStep(GetByIdResult(orders, user, text))

MyOrders(user) ==
    /\ req' = [op |-> "myOrders", user |-> Some(user._id)]
    /\ OrderStep(MyOrdersResult(orders, user))

MarkPaid(user, text, body, now) ==
    /\ req' = [op |-> "markPaid", user |-> Some(user._id), id |-> text, body |-> body,
               now |-> now]
    /\ OrderStep(MarkPaidResult(orders, text, body, now))

MarkDelivered(user, text, now) ==
    /\ req' = [op |-> "markDelivered", user |-> Some(user._id), id |-> text, now |-> now]
    /\ OrderStep(MarkDeliveredResult(orders, user, text, now))

SetStatus(user, text, status, now) ==
    /\ req' = [op |-> "setStatus", user |-> Some(user._id), id |-> text,
               status |-> status, now |-> now]
    /\ OrderStep(SetStatusResult(orders, user, text, status, now))

ListAll(user) ==
    /\ req' = [op |-> "listAll", user |-> Some(user._id)]
    /\ OrderStep(ListAllResult(orders, user))

\* the request both stored orders were created from
PlacedBody ==
    [orderItems |-> Some(<<LineA, LineB>>), shippingAddress |-> "reef lane",
     paymentMethod |-> "card", itemsPrice |-> Undefined, taxPrice |-> Some(3),
     shippingPrice |-> Some(5), totalPrice |-> Undefined]

\* the collection after ann and then bob each placed an order
PlacedOrders ==
    CreateOrderResult(CreateOrderResult(<<>>, <<1>>, PlacedBody).orders, <<2>>, PlacedBody).orders

(***************************************************************************)
(* The auth gate (middleware/auth.js protect) in front of the order        *)
(* routes, and the accessory routes (src/routes/accessories.js), which are *)
(* registered without it.  A request carries an optional Authorization     *)
(* header; a bearer token is its signature state and the id text in its    *)
(* payload.                                                                *)
(***************************************************************************)
Tokens ==
    { [sig |-> "valid", id |-> <<"1">>], [sig |-> "valid", id |-> <<"2">>],
      [sig |-> "valid", id |-> <<"3">>], [sig |-> "valid", id |-> <<"g">>],
      [sig |-> "invalid", id |-> <<"1">>], [sig |-> "expired", id |-> <<"2">>] }

\* no header, a header of another scheme, 'Bearer' alone, 'Bearer <token>'
Authorizations ==
    { Undefined, Some([scheme |-> "Basic", token |-> Undefined]),
      Some([scheme |-> "Bearer", token |-> Undefined]) }
      \cup { Some([scheme |-> "Bearer", token |-> Some(t)]) : t \in Tokens }

\* the headers sent to the routes that never read them: none, ann's token, bob's
OpenAuthorizations ==
    { Undefined,
      Some([scheme |-> "Bearer", token |-> Some([sig |-> "valid", id |-> <<"1">>])]),
      Some([scheme |-> "Bearer", token |-> Some([sig |-> "valid", id |-> <<"2">>])]) }

\* User.findById(decoded.id).select('-password'): <<user>> or <<>> (null)
FindUser(oid) ==
    IF \E u \in Users : u._id = oid
    THEN Some(CHOOSE u \in Users : u._id = oid)
    ELSE Undefined

\* the gate called next() with req.user set
Passed(user) == [next |-> TRUE, user |-> Some(user), res |-> NoResponse]

\* the gate answered and did not call next()
Rejected(response) == [next |-> FALSE, user |-> Undefined, res |-> response]

\* faulty variant: an expired token is verified like a fresh one
ProtectIgnoresExpiry(authorization, dbReady) ==
    IF authorization = Undefined \/ authorization[1].scheme # "Bearer"
    THEN Rejected(Response(401, "Not authorized, no token"))
    ELSE IF ~dbReady
    THEN Rejected(Response(503, "Database connection is not ready. Please try again later."))
    ELSE IF authorization[1].token = Undefined \/ authorization[1].token[1].sig = "invalid"
    THEN Rejected(Response(401, "Not authorized, invalid token"))
    ELSE IF CastObjectId(authorization[1].token[1].id) = Undefined
    THEN Rejected(Response(401, "Not authorized, token failed"))
    ELSE IF FindUser(CastObjectId(authorization[1].token[1].id)[1]) = Undefined
    THEN Rejected(Response(401, "Not authorized, user not found"))
    ELSE Passed(FindUser(CastObjectId(authorization[1].token[1].id)[1])[1])

\* protect: the header is looked at first, then the connection, then
\* jwt.verify (signature before expiry), then the user lookup
Protect(authorization, dbReady) ==
    IF authorization = Undefined \/ authorization[1].scheme # "Bearer"
    THEN Rejected(Response(401, "Not authorized, no token"))
    ELSE IF ~dbReady
    THEN Rejected(Response(503, "Database connection is not ready. Please try again later."))
    ELSE IF authorization[1].token = Undefined \/ authorization[1].token[1].sig = "invalid"
    THEN Rejected(Response(401, "Not authorized, invalid token"))
    ELSE IF authorization[1].token[1].sig = "expired"
    THEN Rejected(Response(401, "Not authorized, token expired"))
    ELSE IF CastObjectId(authorization[1].token[1].id) = Undefined
    THEN Rejected(Response(401, "Not authorized, token failed"))
    ELSE IF FindUser(CastObjectId(authorization[1].token[1].id)[1]) = Undefined
    THEN Rejected(Response(401, "Not authorized, user not found"))
    ELSE Passed(FindUser(CastObjectId(authorization[1].token[1].id)[1])[1])

\* protect statement by statement.  A run is the local `token`, whether the
\* function has returned, how often next() was called and the responses sent.
StartRun == [token |-> Undefined, returned |-> FALSE, nexts |-> 0, sent |-> <<>>]

\* return res.status(status).json({ message })
SendAndReturn(run, status, message) ==
    [run EXCEPT !.returned = TRUE, !.sent = Append(@, Response(status, message))]

\* res.status(status).json({ message }) without a return
SendOnly(run, status, message) ==
    [run EXCEPT !.sent = Append(@, Response(status, message))]

\* faulty variant: the catch block answers a JsonWebTokenError without returning
TryBlockFallsThrough(authorization, dbReady) ==
    LET token == authorization[1].token
        run == [StartRun EXCEPT !.token = token]
    IN  IF ~dbReady
        THEN SendAndReturn(StartRun, 503, "Database connection is not ready. Please try again later.")
        ELSE IF token = Undefined \/ token[1].sig = "invalid"
        THEN SendOnly(run, 401, "Not authorized, invalid token")
        ELSE IF token[1].sig = "expired"
        THEN SendAndReturn(run, 401, "Not authorized, token expired")
        ELSE IF CastObjectId(token[1].id) = Undefined
        THEN SendOnly(run, 401, "Not authorized, token failed")
        ELSE IF FindUser(CastObjectId(token[1].id)[1]) = Undefined
        THEN SendAndReturn(run, 401, "Not authorized, user not found")
        ELSE [run EXCEPT !.nexts = @ + 1]

\* the try / catch of protect: the readyState test returns before `token` is
\* assigned; jwt.verify throws JsonWebTokenError for a missing or badly signed
\* token and TokenExpiredError for an expired one, both answered with a
\* return; findById throws a CastError for an id that is no ObjectId, answered
\* 'token failed' without a return; a null user is answered with a return;
\* otherwise next() is called
TryBlock(authorization, dbReady) ==
    LET token == authorization[1].token
        run == [StartRun EXCEPT !.token = token]
    IN  IF ~dbReady
        THEN SendAndReturn(StartRun, 503, "Database connection is not ready. Please try again later.")
        ELSE IF token = Undefined \/ token[1].sig = "invalid"
        THEN SendAndReturn(run, 401, "Not authorized, invalid token")
        ELSE IF token[1].sig = "expired"
        THEN SendAndReturn(run, 401, "Not authorized, token expired")
        ELSE IF CastObjectId(token[1].id) = Undefined
        THEN SendOnly(run, 401, "Not authorized, token failed")
        ELSE IF FindUser(CastObjectId(token[1].id)[1]) = Undefined
        THEN SendAndReturn(run, 401, "Not authorized, user not found")
        ELSE [run EXCEPT !.nexts = @ + 1]

\* protect: the if around the try block, then `if (!token)` unless returned
ProtectRun(authorization, dbReady) ==
    LET run == IF authorization # Undefined /\ authorization[1].scheme = "Bearer"
               THEN TryBlock(authorization, dbReady)
               ELSE StartRun
    IN  IF ~run.returned /\ run.token = Undefined
        THEN SendOnly(run, 401, "Not authorized, no token")
        ELSE run

\* what a request through the gate records: its header, the connection
\* state, the principal the gate attached (none when it rejected), and how
\* often the gate called next() and answered
GatedReq(op, authorization, dbReady) ==
    [op |-> op, authorization |-> authorization, dbReady |-> dbReady,
     user |-> IF Protect(authorization, dbReady).next
              THEN Some(Protect(authorization, dbReady).user[1]._id)
              ELSE Undefined,
     nexts |-> ProtectRun(authorization, dbReady).nexts,
     responses |-> Len(ProtectRun(authorization, dbReady).sent)]

\* GET /api/orders/myorders behind protect
ProtectedMyOrders(authorization, dbReady) ==
    LET gate == Protect(authorization, dbReady)
    IN  /\ req' = GatedReq("myOrders", authorization, dbReady)
        /\ OrderStep(IF gate.next
                     THEN MyOrdersResult(orders, gate.user[1])
                     ELSE OrderResult(orders, gate.res))

\* POST /api/orders behind protect
ProtectedCreateOrder(authorization, dbReady, body) ==
    LET gate == Protect(authorization, dbReady)
        result == IF gate.next
                  THEN CreateOrderResult(orders, gate.user[1]._id, body)
                  ELSE OrderResult(orders, gate.res)
    IN  /\ Len(result.orders) <= MaxOrders
        /\ req' = [op |-> "createOrder", authorization |-> authorization,
                   dbReady |-> dbReady, user |-> GatedReq("createOrder", authorization, dbReady).user,
                   nexts |-> GatedReq("createOrder", authorization, dbReady).nexts,
                   responses |-> GatedReq("createOrder", authorization, dbReady).responses,
                   body |-> body]
        /\ OrderStep(result)

\* GET /api/orders behind protect and admin
ProtectedListAll(authorization, dbReady) ==
    LET gate == Protect(authorization, dbReady)
    IN  /\ req' = GatedReq("listAll", authorization, dbReady)
        /\ OrderStep(IF gate.next
                     THEN ListAllResult(orders, gate.user[1])
                     ELSE OrderResult(orders, gate.res))

\* the bodies an accessory request may carry: complete for a creation, without
\* a name, complete for an update (which also assigns the category)
AccessoryBodies ==
    { [name |-> Some("net"), price |-> Some(5), category |-> Undefined],
      [name |-> Undefined, price |-> Some(5), category |-> Undefined],
      [name |-> Some("net"), price |-> Some(6), category |-> Some("Accessories")] }

AccessoryIdTexts == { <<"c">>, <<"g">> }

\* new Accessory({ name, price, ..., category: categoryDoc._id })
NewAccessory(body) == [name |-> body.name[1], price |-> body.price[1], category |-> "Accessories"]

\* an accessory handler's frame
AccessoryFrame == UNCHANGED <<accounts, clock, setups, products, carts, orders, accepted, inflight>>

\* POST /api/accessories, registered without protect and admin: the default
\* category is created when missing, then the accessory is validated and saved;
\* with the connection down the first query throws (bufferCommands is false)
CreateAccessory(authorization, dbReady, body) ==
    /\ req' = [op |-> "createAccessory", authorization |-> authorization,
               dbReady |-> dbReady, user |-> Undefined, body |-> body]
    /\ AccessoryFrame
    /\ IF ~dbReady
       THEN /\ res' = Response(400, "MongooseError")
            /\ UNCHANGED <<accessories, categories>>
       ELSE /\ categories' = categories \cup { "Accessories" }
            /\ IF body.name = Undefined \/ body.price = Undefined
               THEN /\ res' = Response(400, "ValidationError")
                    /\ UNCHANGED accessories
               ELSE /\ \E oid \in AccessoryIds :
                         /\ accessories[oid] = Undefined
                         /\ accessories' = [accessories EXCEPT ![oid] = Some(NewAccessory(body))]
                    /\ res' = Response(201, "created")

\* PUT /api/accessories/:id, registered without protect and admin
UpdateAccessory(authorization, dbReady, text, body) ==
    /\ req' = [op |-> "updateAccessory", authorization |-> authorization,
               dbReady |-> dbReady, user |-> Undefined, id |-> text, body |-> body]
    /\ AccessoryFrame
    /\ UNCHANGED categories
    /\ LET cast == CastObjectId(text)
       IN  IF ~dbReady
           THEN /\ res' = Response(500, "MongooseError")
                /\ UNCHANGED accessories
           ELSE IF cast = Undefined
           THEN /\ res' = Response(500, "CastError")
                /\ UNCHANGED accessories
           ELSE IF FindById(accessories, cast[1]) = Undefined
           THEN /\ res' = Response(404, "Accessory not found")
                /\ UNCHANGED accessories
           ELSE IF body.name = Undefined \/ body.price = Undefined \/ body.category = Undefined
           THEN /\ res' = Response(500, "ValidationError")
                /\ UNCHANGED accessories
           ELSE /\ accessories' = [accessories EXCEPT ![cast[1]] =
                                      Some([name |-> body.name[1], price |-> body.price[1],
                                            category |-> body.category[1]])]
                /\ res' = Response(200, "updated")

\* DELETE /api/accessories/:id, registered without protect and admin
DeleteAccessory(authorization, dbReady, text) ==
    /\ req' = [op |-> "deleteAccessory", authorization |-> authorization,
               dbReady |-> dbReady, user |-> Undefined, id |-> text]
    /\ AccessoryFrame
    /\ UNCHANGED categories
    /\ LET cast == CastObjectId(text)
       IN  IF ~dbReady
           THEN /\ res' = Response(500, "MongooseError")
                /\ UNCHANGED accessories
           ELSE IF cast = Undefined
           THEN /\ res' = Response(500, "CastError")
                /\ UNCHANGED accessories
           ELSE IF FindById(accessories, cast[1]) = Undefined
           THEN /\ res' = Response(404, "Accessory not found")
                /\ UNCHANGED accessories
           ELSE /\ accessories' = [accessories EXCEPT ![cast[1]] = Undefined]
                /\ res' = Response(200, "Accessory removed")

\* the order a request through the gate places
GateBody ==
    [orderItems |-> Some(<<LineA>>), shippingAddress |-> "reef lane",
     paymentMethod |-> "card", itemsPrice |-> Undefined, taxPrice |-> Undefined,
     shippingPrice |-> Undefined, totalPrice |-> Undefined]

(***************************************************************************)
(* POST /api/cart as two steps, for requests that interleave: the await of *)
(* Cart.findOne ends the first step, the rest runs up to cart.save().  A   *)
(* request in flight holds the document it loaded.  save() of a new        *)
(* document inserts it; save() after items.push sends $push and bumps the  *)
(* document's version without testing it; save() after a quantity          *)
(* assignment sends $set of items.<k>.quantity and tests that the version  *)
(* is still the loaded one (stale: a push was saved since the load).       *)
(***************************************************************************)
RaceCartTexts == { <<"a">>, <<"b">> }

\* the longest cart the interleaved requests may build
MaxRaceLines == 3

\* the clock stops after this many ticks of five minutes
MaxClock == 3

WithinRaceBounds(cs) ==
    \A i \in 1..Len(cs) :
        /\ Len(cs[i].items) <= MaxRaceLines
        /\ \A k \in 1..Len(cs[i].items) : cs[i].items[k].quantity <= MaxCartQty

RaceSnapshot == [name |-> "clownfish", price |-> 1, image |-> "/uploads/1.png"]

\* the loaded request finds a line to increment
IncrementsLine(r) ==
    r.cart # Undefined /\ FindLine(r.cart[1].items, r.body.productId) # Undefined

\* the loaded request pushes a new line onto the loaded cart
PushesLine(r) ==
    /\ r.cart # Undefined
    /\ FindLine(r.cart[1].items, r.body.productId) = Undefined
    /\ CartItemProduct(r.body.productId) # Undefined

\* faulty variant: the handler reads the cart again when it writes
SaveReloaded(cs, r) == AddItemResult(cs, r.user, r.body)

\* what cart.save() of the loaded request r writes to the collection cs, and
\* the response: the in-memory document
SaveLoaded(cs, r) ==
    IF r.cart = Undefined
    THEN IF CartItemProduct(r.body.productId) = Undefined
         THEN Result(cs, Response(500, "Cart validation failed"))
         ELSE Result(Append(cs, [user |-> r.user, items |-> <<NewLine(r.body)>>]),
                     CartResponse(201, <<NewLine(r.body)>>))
    ELSE IF IncrementsLine(r)
    THEN LET k == FindLine(r.cart[1].items, r.body.productId)[1]
             quantity == r.cart[1].items[k].quantity + QuantityOrDefault(r.body)
         IN  IF r.stale
             THEN Result(cs, Response(500, "VersionError"))
             ELSE Result([cs EXCEPT ![r.found[1]].items[k].quantity = quantity],
                         CartResponse(201, [r.cart[1].items EXCEPT ![k].quantity = quantity]))
    ELSE IF PushesLine(r)
    THEN Result([cs EXCEPT ![r.found[1]].items = Append(@, NewLine(r.body))],
                CartResponse(201, Append(r.cart[1].items, NewLine(r.body))))
    ELSE Result(cs, Response(500, "Cart validation failed"))

\* up to `await Cart.findOne({ user: req.user._id })`
CartLoad(slot, user, text, quantity) ==
    LET body == [productId |-> text, name |-> RaceSnapshot.name, price |-> RaceSnapshot.price,
                 image |-> RaceSnapshot.image, quantity |-> quantity]
        found == FindCart(carts, user._id)
    IN  /\ inflight[slot] = Idle
        /\ inflight' = [inflight EXCEPT ![slot] =
                [op |-> "addItem", user |-> user._id, body |-> body, found |-> found,
                 cart |-> IF found = Undefined THEN Undefined ELSE Some(carts[found[1]]),
                 base |-> carts, stale |-> FALSE]]
        /\ UNCHANGED <<accounts, clock, setups, products, accessories, categories, carts, orders, req, res,
                       accepted>>

\* from the loaded cart to the response
CartSave(slot) ==
    LET r == inflight[slot]
        result == SaveLoaded(carts, r)
    IN  /\ inflight[slot] # Idle
        /\ WithinRaceBounds(result.carts)
        /\ req' = [op |-> "addItem", user |-> Some(r.user), body |-> r.body, base |-> r.base]
        /\ carts' = result.carts
        /\ res' = result.res
        /\ inflight' = [s \in Slots |->
                IF s = slot THEN Idle
                ELSE IF inflight[s] # Idle /\ PushesLine(r) /\ inflight[s].found = r.found
                THEN [inflight[s] EXCEPT !.stale = TRUE]
                ELSE inflight[s]]
        /\ UNCHANGED <<accounts, clock, setups, products, accessories, categories, orders, accepted>>

(***************************************************************************)
(* User accounts: src/models/User.js and the users router.                 *)
(***************************************************************************)
Passwords == { "pw1", "pw2" }

\* a password as the document holds it: the text and how many times bcrypt
\* hashed it (a request's plain text has been hashed no times)
Plain(text) == [text |-> text, hashed |-> 0]

\* bcrypt.hash(password, salt)
Hash(password) == [password EXCEPT !.hashed = @ + 1]

\* userSchema.methods.matchPassword: bcrypt.compare(entered, this.password)
MatchPassword(account, entered) == account.password = Hash(Plain(entered))

AnnEmail == "ann@reef"

BobEmail == "bob@reef"

\* the accounts after both users registered with the password pw1
Registered ==
    [oid \in { u._id : u \in Users } |->
        LET u == CHOOSE x \in Users : x._id = oid
        IN  [_id |-> oid, name |-> u.name,
             email |-> IF u.name = "ann" THEN AnnEmail ELSE BobEmail,
             password |-> Hash(Plain("pw1")), isAdmin |-> u.isAdmin,
             resetPasswordOTP |-> Undefined, resetPasswordOTPExpires |-> Undefined]]

\* what the hook hands to the save whatever was modified
PreSaveAlwaysHashes(doc, passwordModified) == [doc EXCEPT !.password = Hash(@)]

\* userSchema.pre('save'): the document as the save writes it.  With the
\* password unmodified the hook calls next() and the write goes out with the
\* password as loaded; the hook runs on and hashes the copy in memory, which
\* no handler saves again.  With the password modified the hash is awaited
\* before the write.
PreSave(doc, passwordModified) ==
    IF ~passwordModified THEN doc ELSE [doc EXCEPT !.password = Hash(@)]

\* user.save()
SaveUser(as, doc, passwordModified) ==
    [as EXCEPT ![doc._id] = PreSave(doc, passwordModified)]

\* User.findOne({ email })
FindByEmail(as, email) ==
    IF \E oid \in DOMAIN as : Some(as[oid].email) = email
    THEN Some(as[CHOOSE oid \in DOMAIN as : Some(as[oid].email) = email])
    ELSE Undefined

UserResult(as, response) == [accounts |-> as, res |-> response]

\* POST /api/users/login
LoginResult(as, email, password) ==
    LET user == FindByEmail(as, email)
    IN  IF user # Undefined /\ MatchPassword(user[1], password)
        THEN UserResult(as, Response(200, "token"))
        ELSE UserResult(as, Response(401, "Invalid email or password"))

ProfileBodies ==
    [password : { Undefined } \cup { Some(p) : p \in Passwords },
     currentPassword : { Undefined } \cup { Some(p) : p \in Passwords },
     name : { Undefined, Some("annie") }]

\* PUT /api/users/profile behind protect
UpdateProfileResult(as, userId, body) ==
    IF userId \notin DOMAIN as
    THEN UserResult(as, Response(404, "User not found"))
    ELSE LET user == as[userId]
         IN  IF body.password # Undefined
                /\ (body.currentPassword = Undefined
                    \/ ~MatchPassword(user, body.currentPassword[1]))
             THEN UserResult(as, Response(400, "Current password is incorrect"))
             ELSE LET named == [user EXCEPT !.name = IF body.name # Undefined
                                                     THEN body.name[1] ELSE @]
                      doc == IF body.password # Undefined
                             THEN [named EXCEPT !.password = Plain(body.password[1])]
                             ELSE named
                  IN  UserResult(SaveUser(as, doc, body.password # Undefined),
                                 Response(200, "profile"))

\* the :id of PUT /api/users/:id: ann's, an unknown one, one that does not cast
UserIdTexts == { <<"1">>, <<"3">>, <<"g">> }

\* PUT /api/users/:id behind protect and admin: the caller is looked up by
\* protect, so its isAdmin is the stored one
SetAdminResult(as, callerId, text, isAdmin) ==
    LET cast == CastObjectId(text)
    IN  IF ~as[callerId].isAdmin
        THEN UserResult(as, Response(401, "Not authorized as an admin"))
        ELSE IF cast = Undefined
        THEN UserResult(as, Response(500, "CastError"))
        ELSE IF cast[1] \notin DOMAIN as
        THEN UserResult(as, Response(404, "User not found"))
        ELSE UserResult(SaveUser(as, [as[cast[1]] EXCEPT !.isAdmin = isAdmin], FALSE),
                        Response(200, "user"))

\* generateOTP(): six digits
Otps == { "111111", "222222" }

\* 10 * 60 * 1000 ms, in ticks of five minutes
OtpLifetime == 2

ForgotEmails == { Undefined, Some("annreef"), Some("eve@reef"), Some(AnnEmail) }

\* email.includes('@')
IncludesAt(email) == email \in { "eve@reef", AnnEmail, BobEmail }

\* POST /api/users/forgot-password: the code and its expiry are saved before
\* the mail is sent, so a failed mail answers 500 with the code stored
ForgotPasswordResult(as, email, otp, mailSent, now) ==
    IF email = Undefined \/ ~IncludesAt(email[1])
    THEN UserResult(as, Response(400, "Valid email is required"))
    ELSE LET user == FindByEmail(as, email)
         IN  IF user = Undefined
             THEN UserResult(as, Response(404, "User not found"))
             ELSE LET doc == [user[1] EXCEPT !.resetPasswordOTP = Some(otp),
                                             !.resetPasswordOTPExpires = Some(now + OtpLifetime)]
                  IN  UserResult(SaveUser(as, doc, FALSE),
                                 IF mailSent
                                 THEN Response(200, "OTP sent successfully to your email")
                                 ELSE Response(500, "Failed to send OTP email. Please try again later."))

\* req.body.otp of verify-otp: a text, nothing, or the JSON object { "$ne": "" }
SubmittedOtps ==
    { [kind |-> "text", value |-> c] : c \in Otps }
        \cup { [kind |-> "undefined", value |-> ""], [kind |-> "$ne", value |-> ""] }

\* the filter resetPasswordOTP: otp as mongoose casts it for a String path: a
\* text matches the equal stored text, undefined is sent as null and matches
\* an unset field, and an object of query operators is applied as operators
OtpFilterMatches(stored, otp) ==
    CASE otp.kind = "text" -> stored = Some(otp.value)
      [] otp.kind = "undefined" -> stored = Undefined
      [] otp.kind = "$ne" -> stored # Some(otp.value)

\* User.findOne({ email, resetPasswordOTP: otp, resetPasswordOTPExpires: { $gt: Date.now() } })
OtpFilter(account, email, otp, now) ==
    /\ Some(account.email) = email
    /\ OtpFilterMatches(account.resetPasswordOTP, otp)
    /\ account.resetPasswordOTPExpires # Undefined
    /\ account.resetPasswordOTPExpires[1] > now

\* POST /api/users/verify-otp; password is required, so a missing newPassword
\* fails validation and nothing is saved
VerifyOtpResult(as, email, otp, newPassword, now) ==
    IF ~\E oid \in DOMAIN as : OtpFilter(as[oid], email, otp, now)
    THEN UserResult(as, Response(400, "Invalid or expired OTP"))
    ELSE IF newPassword = Undefined
    THEN UserResult(as, Response(500, "ValidationError"))
    ELSE LET user == as[CHOOSE oid \in DOMAIN as : OtpFilter(as[oid], email, otp, now)]
             doc == [user EXCEPT !.password = Plain(newPassword[1]),
                                 !.resetPasswordOTP = Undefined,
                                 !.resetPasswordOTPExpires = Undefined]
         IN  UserResult(SaveUser(as, doc, TRUE), Response(200, "Password reset successfully"))

UserFrame ==
    UNCHANGED <<setups, products, accessories, categories, carts, orders, accepted, inflight>>

UserStep(request, result) ==
    /\ req' = request
    /\ accounts' = result.accounts
    /\ res' = result.res
    /\ UNCHANGED clock
    /\ UserFrame

Login(email, password) ==
    UserStep([op |-> "login", email |-> email, password |-> password],
             LoginResult(accounts, email, password))

UpdateProfile(userId, body) ==
    UserStep([op |-> "updateProfile", user |-> Some(userId), body |-> body],
             UpdateProfileResult(accounts, userId, body))

SetAdmin(callerId, text, isAdmin) ==
    UserStep([op |-> "setAdmin", user |-> Some(callerId), id |-> text, isAdmin |-> isAdmin],
             SetAdminResult(accounts, callerId, text, isAdmin))

ForgotPassword(email, otp, mailSent) ==
    UserStep([op |-> "forgotPassword", email |-> email, otp |-> otp, mailSent |-> mailSent],
             ForgotPasswordResult(accounts, email, otp, mailSent, clock))

VerifyOtp(email, otp, newPassword) ==
    UserStep([op |-> "verifyOtp", email |-> email, otp |-> otp, newPassword |-> newPassword],
             VerifyOtpResult(accounts, email, otp, newPassword, clock))

\* five minutes pass
Tick ==
    /\ clock < MaxClock
    /\ clock' = clock + 1
    /\ req' = [op |-> "tick"]
    /\ res' = NoResponse
    /\ UNCHANGED accounts
    /\ UserFrame

(***************************************************************************)
(* GET routes of the product and full-marine-setup routers, in the order   *)
(* they are registered.                                                    *)
(***************************************************************************)
Top == <<"t", "o", "p">>

Categories == <<"c", "a", "t", "e", "g", "o", "r", "i", "e", "s">>

Literal(segment) == [param |-> FALSE, segment |-> segment]

Param == [param |-> TRUE, segment |-> <<>>]

\* products.js: router.get('/'), ('/categories'), ('/:id'), ('/top')
ProductGetRoutes ==
    << [path |-> <<>>, handler |-> "list"],
       [path |-> <<Literal(Categories)>>, handler |-> "categories"],
       [path |-> <<Param>>, handler |-> "getOne"],
       [path |-> <<Literal(Top)>>, handler |-> "top"] >>

\* fullMarineSetup.js: router.get('/'), ('/:id'), ('/top')
SetupGetRoutes ==
    << [path |-> <<>>, handler |-> "list"],
       [path |-> <<Param>>, handler |-> "getOne"],
       [path |-> <<Literal(Top)>>, handler |-> "top"] >>

\* express matches a path against a route pattern segment by segment: a
\* literal matches the equal segment, a parameter any one segment
RouteMatches(pattern, path) ==
    /\ Len(pattern) = Len(path)
    /\ \A i \in 1..Len(path) : pattern[i].param \/ pattern[i].segment = path[i]

\* the handler of the first registered route that matches; no handler here
\* calls next(), so no later route runs
Dispatch(routes, path) ==
    IF \E i \in 1..Len(routes) : RouteMatches(routes[i].path, path)
    THEN Some(routes[CHOOSE i \in 1..Len(routes) :
                        /\ RouteMatches(routes[i].path, path)
                        /\ \A j \in 1..(i - 1) : ~RouteMatches(routes[j].path, path)].handler)
    ELSE Undefined

WithItems(response, items) == [response EXCEPT !.items = items]

\* router.get('/:id'): findById(req.params.id)
GetOneResult(coll, text) ==
    LET cast == CastObjectId(text)
    IN  IF cast = Undefined THEN Response(500, "CastError")
        ELSE IF FindById(coll, cast[1]) = Undefined THEN Response(404, "Product not found")
        ELSE WithItems(Response(200, "product"), FindById(coll, cast[1]))

\* a.rating >= b.rating
RatedAtLeast(a, b) == a.rating.num * b.rating.den >= b.rating.num * a.rating.den

\* router.get('/top'): find({}).sort({ rating: -1 }).limit(3)
TopResult(coll) ==
    LET ids == { oid \in DOMAIN coll : coll[oid] # Undefined }
        n == IF Cardinality(ids) < 3 THEN Cardinality(ids) ELSE 3
        order == CHOOSE s \in [1..n -> ids] :
                    /\ \A i, j \in 1..n : i < j =>
                          s[i] # s[j] /\ RatedAtLeast(coll[s[i]][1], coll[s[j]][1])
                    /\ \A oid \in ids \ { s[i] : i \in 1..n } :
                          \A i \in 1..n : RatedAtLeast(coll[s[i]][1], coll[oid][1])
    IN  WithItems(Response(200, "top"), [i \in 1..n |-> coll[order[i]][1]])

Routers == { "products", "full-marine-setup" }

GetRoutes(router) == IF router = "products" THEN ProductGetRoutes ELSE SetupGetRoutes

Collection(router) == IF router = "products" THEN products ELSE setups

\* the paths requested below a router's mount point: '/top' and '/<id>'
GetPaths == { <<Top>> } \cup { <<text>> : text \in IdTexts }

\* GET <mount point><path>
Get(router, path) ==
    LET handler == Dispatch(GetRoutes(router), path)
    IN  /\ req' = [op |-> "get", router |-> router, path |-> path, handler |-> handler]
        /\ res' = CASE handler = Some("getOne") -> GetOneResult(Collection(router), path[1])
                    [] handler = Some("top") -> TopResult(Collection(router))
                    [] OTHER -> Response(404, "Not Found")
        /\ UNCHANGED <<accounts, clock, setups, products, accessories, categories, carts, orders,
                       accepted, inflight>>

Init ==
    /\ accounts = Registered
    /\ clock = 0
    /\ setups = [oid \in SetupIds |-> Undefined]
    /\ products = [oid \in ProductIds |-> Undefined]
    /\ accessories = [oid \in AccessoryIds |-> Undefined]
    /\ categories = {}
    /\ carts = <<>>
    /\ orders = <<>>
    /\ req = Idle
    /\ res = NoResponse
    /\ accepted = [oid \in SetupIds \cup ProductIds |-> <<>>]
    /\ inflight = [slot \in Slots |-> Idle]

\* the review aggregator, one request at a time
NextReview ==
    \/ \E user \in Users, hasImage \in BOOLEAN : CreateSetup(user, hasImage)
    \/ \E user \in Users, hasFiles \in BOOLEAN, hasCategory \in BOOLEAN :
          CreateProduct(user, hasFiles, hasCategory)
    \/ \E user \in Users, idText \in IdTexts, rating \in Ratings :
          SetupAddReview(user, idText, rating)
    \/ \E idText \in IdTexts, rating \in Ratings : ProductAddReview(idText, rating)

SpecReview == Init /\ [][NextReview]_vars

\* the cart manager, one request at a time
NextCart ==
    \/ \E user \in Customers : GetCart(user)
    \/ \E user \in Customers, text \in IdTexts, snapshot \in Snapshots,
          quantity \in AddQuantities : AddItem(user, text, snapshot, quantity)
    \/ \E user \in Customers, text \in IdTexts, quantity \in SetQuantities :
          SetQuantity(user, text, quantity)
    \/ \E user \in Customers, text \in IdTexts : RemoveItem(user, text)
    \/ \E user \in Customers : ClearCart(user)

SpecCart == Init /\ [][NextCart]_vars

\* the order builder, one request at a time
NextOrder ==
    \E user \in Customers, body \in OrderBodies : CreateOrder(user, body)

SpecOrder == Init /\ [][NextOrder]_vars

\* the shop once a product is listed and two orders are placed
InitPlaced ==
    /\ accounts = Registered
    /\ clock = 0
    /\ setups = [oid \in SetupIds |-> Undefined]
    /\ products = [oid \in ProductIds |-> Some(NewProduct)]
    /\ accessories = [oid \in AccessoryIds |-> Undefined]
    /\ categories = {}
    /\ carts = <<>>
    /\ orders = PlacedOrders
    /\ req = Idle
    /\ res = NoResponse
    /\ accepted = [oid \in SetupIds \cup ProductIds |-> <<>>]
    /\ inflight = [slot \in Slots |-> Idle]

\* the orders after their creation, one request at a time
NextOrderLife ==
    \/ \E user \in Users, text \in OrderIdTexts : GetById(user, text)
    \/ \E user \in Users : MyOrders(user)
    \/ \E user \in Users, text \in OrderIdTexts, body \in PaymentBodies, now \in Times :
          MarkPaid(user, text, body, now)
    \/ \E user \in Users, text \in OrderIdTexts, now \in Times :
          MarkDelivered(user, text, now)
    \/ \E user \in Users, text \in OrderIdTexts, status \in Statuses, now \in Times :
          SetStatus(user, text, status, now)
    \/ \E user \in Users : ListAll(user)
    \/ \E user \in Users, text \in ProductIdTexts, price \in UpdatePrices :
          UpdateProduct(user, text, price)
    \/ \E user \in Customers : ClearCart(user)

SpecOrderLife == InitPlaced /\ [][NextOrderLife]_vars

\* requests with any Authorization header, to routes behind the auth gate and
\* to the accessory routes
NextGate ==
    \/ \E authorization \in Authorizations, dbReady \in BOOLEAN :
          ProtectedMyOrders(authorization, dbReady)
    \/ \E authorization \in Authorizations, dbReady \in BOOLEAN :
          ProtectedCreateOrder(authorization, dbReady, GateBody)
    \/ \E authorization \in Authorizations, dbReady \in BOOLEAN :
          ProtectedListAll(authorization, dbReady)
    \/ \E authorization \in OpenAuthorizations, dbReady \in BOOLEAN, body \in AccessoryBodies :
          CreateAccessory(authorization, dbReady, body)
    \/ \E authorization \in OpenAuthorizations, dbReady \in BOOLEAN,
          text \in AccessoryIdTexts, body \in AccessoryBodies :
          UpdateAccessory(authorization, dbReady, text, body)
    \/ \E authorization \in OpenAuthorizations, dbReady \in BOOLEAN, text \in AccessoryIdTexts :
          DeleteAccessory(authorization, dbReady, text)

SpecGate == Init /\ [][NextGate]_vars

\* the cart manager with addItem quantities of any sign
NextCartSigned ==
    \/ \E user \in Customers, text \in RaceCartTexts, quantity \in SignedQuantities :
          AddItemSigned(user, text, quantity)
    \/ \E user \in Customers, text \in RaceCartTexts, quantity \in SetQuantities :
          SetQuantity(user, text, quantity)

SpecCartSigned == Init /\ [][NextCartSigned]_vars

\* the cart of one user with addItem requests that interleave at their awaits
NextCartRace ==
    \/ \E slot \in Slots, user \in Customers, text \in RaceCartTexts :
          CartLoad(slot, user, text, Some(1))
    \/ \E slot \in Slots : CartSave(slot)

SpecCartRace == Init /\ [][NextCartRace]_vars

\* the catalog with its reviews and its GET routes, one request at a time
NextRoutes ==
    \/ NextReview
    \/ \E router \in Routers, path \in GetPaths : Get(router, path)

SpecRoutes == Init /\ [][NextRoutes]_vars

\* the user accounts, one request at a time
NextUser ==
    \/ \E email \in { Some(AnnEmail), Some("eve@reef") }, password \in Passwords :
            Login(email, password)
    \/ \E body \in ProfileBodies : UpdateProfile(<<1>>, body)
    \/ \E caller \in { u._id : u \in Users }, text \in UserIdTexts, isAdmin \in BOOLEAN :
            SetAdmin(caller, text, isAdmin)
    \/ \E email \in ForgotEmails, otp \in Otps, mailSent \in BOOLEAN :
            ForgotPassword(email, otp, mailSent)
    \/ \E email \in { Some(AnnEmail), Some("eve@reef") }, otp \in SubmittedOtps,
          newPassword \in { Undefined } \cup { Some(p) : p \in Passwords } :
            VerifyOtp(email, otp, newPassword)
    \/ Tick

SpecUser == Init /\ [][NextUser]_vars

\* every handler, one request at a time
Next ==
    \/ NextReview
    \/ NextCart
    \/ NextOrder
    \/ NextOrderLife
    \/ NextGate

Spec == Init /\ [][Next]_vars

\* the review aggregator with requests that interleave at their awaits
NextReviewRace ==
    \/ \E user \in Users, hasImage \in BOOLEAN : CreateSetup(user, hasImage)
    \/ \E slot \in Slots, user \in Users, idText \in RaceIdTexts, rating \in RaceRatings :
          ReviewLoad(slot, user, idText, rating)
    \/ \E slot \in Slots : ReviewSave(slot)

SpecReviewRace == Init /\ [][NextReviewRace]_vars

(***************************************************************************)
(* Properties of the review aggregator.                                    *)
(***************************************************************************)
RECURSIVE SumOf(_)
SumOf(ints) == IF ints = <<>> THEN 0 ELSE Head(ints) + SumOf(Tail(ints))

MeanOf(ints) == IF ints = <<>> THEN Zero ELSE Quot(SumOf(ints), Len(ints))

HasReviewBy(doc, userId) == \E i \in 1..Len(doc.reviews) : doc.reviews[i].user = userId

\* C1: every stored item's rating is the mean of the ratings of the addReview
\* calls that succeeded on it (0 when there are none) and its numReviews is
\* their number.
C1_RatingIsMean ==
    /\ \A oid \in SetupIds :
          setups[oid] # Undefined =>
              /\ setups[oid][1].numReviews = Len(accepted[oid])
              /\ setups[oid][1].rating = MeanOf(accepted[oid])
    /\ \A oid \in ProductIds :
          products[oid] # Undefined =>
              /\ products[oid][1].numReviews = Len(accepted[oid])
              /\ products[oid][1].rating = MeanOf(accepted[oid])

\* two reviews were accepted on one item and their mean is not an integer
C1_Witness ==
    \E oid \in SetupIds :
        /\ setups[oid] # Undefined
        /\ Len(accepted[oid]) = 2
        /\ setups[oid][1].rating.den = 2

\* C2: an addReview by a user who already has a review on the item is answered
\* 400 "Product already reviewed" and leaves the item as it was.
C2_SecondReviewRejected ==
    [][\A oid \in SetupIds :
          ( /\ req'.op = "setupAddReview"
            /\ CastObjectId(req'.id) = Some(oid)
            /\ setups[oid] # Undefined
            /\ HasReviewBy(setups[oid][1], req'.user[1]) )
          => ( /\ res' = Response(400, "Product already reviewed")
               /\ setups'[oid] = setups[oid]
               /\ accepted' = accepted )]_vars

\* a second review of a reviewed item was just rejected
C2_Witness ==
    /\ req.op = "setupAddReview"
    /\ res.status = 400
    /\ \E oid \in SetupIds :
          /\ CastObjectId(req.id) = Some(oid)
          /\ setups[oid] # Undefined
          /\ HasReviewBy(setups[oid][1], req.user[1])

\* C3: no item ever holds two reviews of one user.
C3_OneReviewPerUser ==
    \A oid \in SetupIds :
        setups[oid] # Undefined =>
            \A i, j \in 1..Len(setups[oid][1].reviews) :
                i # j => setups[oid][1].reviews[i].user # setups[oid][1].reviews[j].user

(***************************************************************************)
(* Properties of the cart manager.                                         *)
(***************************************************************************)
\* the lines of a cart that refer to the product oid
LinesOf(cart, oid) == { k \in 1..Len(cart.items) : cart.items[k].product = oid }

OneLinePerProduct(cs) ==
    \A i \in 1..Len(cs) : \A k, l \in 1..Len(cs[i].items) :
        k # l => cs[i].items[k].product # cs[i].items[l].product

\* C4: a cart never holds two lines for one product, and an addItem for a
\* product that has a line leaves that one line with the summed quantity.
C4_OneLinePerProduct ==
    [][ /\ OneLinePerProduct(carts')
        /\ \A oid \in SetupIds \cup ProductIds :
             ( /\ req'.op = "addItem"
               /\ CastObjectId(req'.body.productId) = Some(oid)
               /\ FindCart(carts, req'.user[1]) # Undefined
               /\ LinesOf(carts[FindCart(carts, req'.user[1])[1]], oid) # {} )
             => LET i == FindCart(carts, req'.user[1])[1]
                IN  \E k \in LinesOf(carts[i], oid) :
                       /\ LinesOf(carts'[i], oid) = {k}
                       /\ carts'[i].items[k].quantity =
                             carts[i].items[k].quantity + QuantityOrDefault(req'.body) ]_vars

\* C5: addItem for a product that has a line adds the quantity (1 when
\* omitted) to that line and changes nothing else of the cart.
C5_AddExistingIncrements ==
    [][ \A oid \in SetupIds \cup ProductIds :
          ( /\ req'.op = "addItem"
            /\ CastObjectId(req'.body.productId) = Some(oid)
            /\ FindCart(carts, req'.user[1]) # Undefined
            /\ LinesOf(carts[FindCart(carts, req'.user[1])[1]], oid) # {} )
          => LET i == FindCart(carts, req'.user[1])[1]
             IN  \E k \in LinesOf(carts[i], oid) :
                    carts' = [carts EXCEPT ![i].items[k].quantity =
                                  @ + QuantityOrDefault(req'.body)] ]_vars

\* C6: setQuantity on a product that has a line removes the line when the
\* quantity is <= 0 and otherwise overwrites the line's quantity; the cart
\* document stays, also with no line left.
C6_SetQuantityOverwrites ==
    [][ \A oid \in SetupIds \cup ProductIds :
          ( /\ req'.op = "setQuantity"
            /\ CastObjectId(req'.id) = Some(oid)
            /\ FindCart(carts, req'.user[1]) # Undefined
            /\ LinesOf(carts[FindCart(carts, req'.user[1])[1]], oid) # {} )
          => LET i == FindCart(carts, req'.user[1])[1]
             IN  \E k \in LinesOf(carts[i], oid) :
                    carts' = IF req'.quantity <= 0
                             THEN [carts EXCEPT ![i].items = Splice(@, k)]
                             ELSE [carts EXCEPT ![i].items[k].quantity = req'.quantity] ]_vars

\* the product the text names has no line in the user's cart (or there is no cart)
AbsentFromCart(cs, userId, text) ==
    \A i \in 1..Len(cs) : cs[i].user = userId =>
        \A k \in 1..Len(cs[i].items) : Some(cs[i].items[k].product) # CastObjectId(text)

HasCart(cs, userId) == \E i \in 1..Len(cs) : cs[i].user = userId

\* C7 as stated: removing a product that has no line is a success that
\* changes nothing, with or without a cart document, and a second removeItem
\* leaves the same state with the same kind of result.
C7_RemoveAbsentAlwaysSucceeds ==
    [][ req'.op = "removeItem" =>
          LET again == RemoveItemResult(carts', req'.user[1], req'.id)
          IN  /\ AbsentFromCart(carts, req'.user[1], req'.id)
                    => (res'.status = 200 /\ carts' = carts)
              /\ again.carts = carts'
              /\ again.res.status = res'.status ]_vars

\* C7 amended: with a cart document, removing a product that has no line is
\* a success that changes nothing; without one the answer is 404 "Cart not
\* found" and nothing changes; a second removeItem leaves the same state with
\* the same kind of result.
C7_RemoveItemIdempotent ==
    [][ req'.op = "removeItem" =>
          LET again == RemoveItemResult(carts', req'.user[1], req'.id)
          IN  /\ ~HasCart(carts, req'.user[1])
                    => (res' = Response(404, "Cart not found") /\ carts' = carts)
              /\ (HasCart(carts, req'.user[1])
                    /\ AbsentFromCart(carts, req'.user[1], req'.id))
                    => (res'.status = 200 /\ carts' = carts)
              /\ again.carts = carts'
              /\ again.res.status = res'.status ]_vars

\* a product without a line was removed from a cart that holds other lines
C7_Witness ==
    /\ req.op = "removeItem"
    /\ res.status = 200
    /\ res.items # <<>>
    /\ HasCart(carts, req.user[1])
    /\ AbsentFromCart(carts, req.user[1], req.id)
    /\ CastObjectId(req.id) # Undefined

\* C8: clearCart deletes the user's cart document: getCart then answers an
\* empty item list, a second clearCart succeeds and changes nothing, and an
\* addItem then creates a cart with exactly the added line.
C8_ClearCartDeletes ==
    [][ req'.op = "clearCart" =>
          LET u == req'.user[1]
          IN  /\ res' = Response(200, "Cart cleared")
              /\ ~HasCart(carts', u)
              /\ GetCartResult(carts', u).res =
                     [status |-> 200, message |-> "empty", items |-> <<>>]
              /\ ClearCartResult(carts', u) = Result(carts', Response(200, "Cart cleared"))
              /\ \A text \in IdTexts, snapshot \in Snapshots, quantity \in AddQuantities :
                    CastObjectId(text) # Undefined =>
                       LET body == [productId |-> text, name |-> snapshot.name,
                                    price |-> snapshot.price, image |-> snapshot.image,
                                    quantity |-> quantity]
                           line == [product |-> CastObjectId(text)[1],
                                    name |-> snapshot.name, price |-> snapshot.price,
                                    image |-> snapshot.image,
                                    quantity |-> IF quantity = Undefined THEN 1
                                                 ELSE quantity[1]]
                           added == AddItemResult(carts', u, body)
                       IN  /\ added.res.status = 201
                           /\ added.carts = Append(carts', [user |-> u, items |-> <<line>>]) ]_vars

\* clearCart was just answered and the user has no cart document
C8_Witness ==
    /\ req.op = "clearCart"
    /\ res = Response(200, "Cart cleared")
    /\ ~HasCart(carts, req.user[1])
    /\ GetCartResult(carts, req.user[1]).res.items = <<>>

(***************************************************************************)
(* Properties of the order builder.                                        *)
(***************************************************************************)
\* C9: createOrder with an empty orderItems list is answered 400 "No order
\* items" and stores no order, whatever else the request carries.
C9_EmptyOrderRejected ==
    [][ (req'.op = "createOrder" /\ req'.body.orderItems = Some(<<>>))
          => (res' = Response(400, "No order items") /\ orders' = orders) ]_vars

\* an empty order that carried prices of its own was refused
C9_Witness ==
    /\ req.op = "createOrder"
    /\ req.body.orderItems = Some(<<>>)
    /\ req.body.itemsPrice = Some(7)
    /\ req.body.totalPrice = Some(40)
    /\ res.status = 400

RECURSIVE LineSum(_)
\* the sum of price x qty over the lines, a missing price or qty counting as 0
LineSum(lines) ==
    IF lines = <<>> THEN 0
    ELSE (IF Head(lines).price = Undefined \/ Head(lines).qty = Undefined
          THEN 0 ELSE Head(lines).price[1] * Head(lines).qty[1])
         + LineSum(Tail(lines))

\* C10: createOrder with a non-empty orderItems list and itemsPrice absent or
\* zero stores an order whose itemsPrice is the sum of price x qty over the
\* lines, a missing price or qty counting as 0 and raising no error.
C10_ItemsPriceDerived ==
    [][ ( /\ req'.op = "createOrder"
          /\ req'.body.orderItems # Undefined
          /\ req'.body.orderItems # Some(<<>>)
          /\ req'.body.itemsPrice \in { Undefined, Some(0) } )
          => /\ res'.status = 201
             /\ Len(orders') = Len(orders) + 1
             /\ SubSeq(orders', 1, Len(orders)) = orders
             /\ orders'[Len(orders')].orderItems = req'.body.orderItems[1]
             /\ orders'[Len(orders')].itemsPrice = LineSum(req'.body.orderItems[1]) ]_vars

\* the order of [{price 10, qty 2}, {price 5, qty 1}] was stored with itemsPrice 25
C10_Witness ==
    /\ req.op = "createOrder"
    /\ req.body.orderItems = Some(<<LineA, LineB>>)
    /\ req.body.itemsPrice = Undefined
    /\ res.status = 201
    /\ orders[Len(orders)].itemsPrice = 25

\* an order with a line without price was stored, the line counting as 0
C10_WitnessMissing ==
    /\ req.op = "createOrder"
    /\ req.body.orderItems = Some(<<LineNoPrice, LineA>>)
    /\ req.body.itemsPrice = Some(0)
    /\ res.status = 201
    /\ orders[Len(orders)].itemsPrice = 20


\* what the caller supplied, or the sum over the lines when it supplied none
ExpectedItemsPrice(body) ==
    IF body.itemsPrice \in { Undefined, Some(0) }
    THEN LineSum(body.orderItems[1])
    ELSE body.itemsPrice[1]

ValueOrZero(n) == IF n = Undefined THEN 0 ELSE n[1]

\* C11: an order created with totalPrice absent or zero is stored with
\* totalPrice = itemsPrice (supplied or derived) + shippingPrice (0 when
\* absent), without the tax; taxPrice and shippingPrice are stored as 0 when
\* absent.
C11_TotalPriceDerived ==
    [][ ( /\ req'.op = "createOrder"
          /\ res'.status = 201
          /\ req'.body.totalPrice \in { Undefined, Some(0) } )
          => LET stored == orders'[Len(orders')]
             IN  /\ Len(orders') = Len(orders) + 1
                 /\ stored.itemsPrice = ExpectedItemsPrice(req'.body)
                 /\ stored.shippingPrice = ValueOrZero(req'.body.shippingPrice)
                 /\ stored.taxPrice = ValueOrZero(req'.body.taxPrice)
                 /\ stored.totalPrice = stored.itemsPrice + stored.shippingPrice ]_vars

\* lines summing to 25 with shippingPrice 5 and taxPrice 3 were stored with totalPrice 30
C11_Witness ==
    /\ req.op = "createOrder"
    /\ res.status = 201
    /\ req.body.orderItems = Some(<<LineA, LineB>>)
    /\ req.body.totalPrice = Undefined
    /\ req.body.shippingPrice = Some(5)
    /\ req.body.taxPrice = Some(3)
    /\ orders[Len(orders)].itemsPrice = 25
    /\ orders[Len(orders)].totalPrice = 30

\* C18: createOrder with orderItems absent is not refused by the emptiness
\* check: the answer is never 400 'No order items'; the handler goes on to the
\* price derivation (where reading the missing list throws when the subtotal
\* has to be derived) and, with a supplied subtotal, to building and storing
\* the order.
C18_MissingItemsNotRejected ==
    [][ ( /\ req'.op = "createOrder"
          /\ req'.body.orderItems = Undefined )
          => /\ res'.status # 400
             /\ res'.message # "No order items"
             /\ IF DerivesItemsPrice(req'.body)
                THEN res' = Response(500, "TypeError") /\ orders' = orders
                ELSE /\ res'.status = 201
                     /\ Len(orders') = Len(orders) + 1
                     /\ orders'[Len(orders')].orderItems = <<>>
                     /\ orders'[Len(orders')].itemsPrice = req'.body.itemsPrice[1] ]_vars

\* an order was stored for a request that carried no orderItems at all
C18_Witness ==
    /\ req.op = "createOrder"
    /\ req.body.orderItems = Undefined
    /\ req.body.itemsPrice = Some(7)
    /\ res.status = 201
    /\ orders # <<>>
    /\ orders[Len(orders)].orderItems = <<>>
    /\ orders[Len(orders)].itemsPrice = 7

\* the position of the stored order a request's id text names, as <<i>>, or <<>>
Target(os, text) ==
    IF CastObjectId(text) = Undefined THEN Undefined
    ELSE FindOrder(os, CastObjectId(text)[1])

\* the user document of the principal a request carries
Requester(r) == CHOOSE u \in Users : Some(u._id) = r.user

\* C12: setStatus(order, s) by an admin on a stored order stores status = s;
\* for s = 'delivered' it sets isDelivered and a non-null deliveredAt; for
\* s = 'pending' or 'confirmed' it sets isDelivered = false and clears
\* deliveredAt (so delivered followed by pending ends undelivered and undated);
\* for every other s it leaves isDelivered and deliveredAt as they were.
C12_SetStatusSyncsDelivery ==
    [][ ( /\ req'.op = "setStatus"
          /\ Requester(req').isAdmin
          /\ Target(orders, req'.id) # Undefined )
          => LET i == Target(orders, req'.id)[1]
                 s == req'.status
             IN  /\ res'.status = 200
                 /\ Len(orders') = Len(orders)
                 /\ orders'[i].status = s
                 /\ s = "delivered"
                      => orders'[i].isDelivered /\ orders'[i].deliveredAt # Undefined
                 /\ s \in { "pending", "confirmed" }
                      => ~orders'[i].isDelivered /\ orders'[i].deliveredAt = Undefined
                 /\ s \notin { "delivered", "pending", "confirmed" }
                      => /\ orders'[i].isDelivered = orders[i].isDelivered
                         /\ orders'[i].deliveredAt = orders[i].deliveredAt ]_vars

\* setStatus('delivered') has just marked a stored order delivered and dated
C12_Witness ==
    /\ req.op = "setStatus"
    /\ req.status = "delivered"
    /\ res.status = 200
    /\ Target(orders, req.id) # Undefined
    /\ orders[Target(orders, req.id)[1]].status = "delivered"
    /\ orders[Target(orders, req.id)[1]].isDelivered
    /\ orders[Target(orders, req.id)[1]].deliveredAt = Some(req.now)

\* setStatus('pending') has just cleared the delivery fields of an order
C12_WitnessCleared ==
    /\ req.op = "setStatus"
    /\ req.status = "pending"
    /\ res.status = 200
    /\ Target(orders, req.id) # Undefined
    /\ ~orders[Target(orders, req.id)[1]].isDelivered
    /\ orders[Target(orders, req.id)[1]].deliveredAt = Undefined

\* C13: getById answers 404 when no order has the requested id, 403 when the
\* order exists and the requester is neither its owner nor an admin, and
\* returns the order otherwise.
C13_GetByIdOwnerOrAdmin ==
    [][ req'.op = "getById"
          => LET t == Target(orders, req'.id)
                 u == Requester(req')
             IN  IF t = Undefined
                 THEN res'.status = 404
                 ELSE IF orders[t[1]].user = u._id \/ u.isAdmin
                 THEN /\ res'.status = 200
                      /\ Len(res'.items) = 1
                      /\ res'.items[1]._id = orders[t[1]]._id
                 ELSE res'.status = 403 ]_vars

\* the part of C13 that holds: an order is returned only to its owner or an admin
C13_ReadOnlyByOwnerOrAdmin ==
    [][ (req'.op = "getById" /\ res'.status = 200)
          => /\ Target(orders, req'.id) # Undefined
             /\ \/ orders[Target(orders, req'.id)[1]].user = Requester(req')._id
                \/ Requester(req').isAdmin ]_vars

\* the fields of an order that are fixed at creation
Immutable(o) ==
    <<o._id, o.user, o.orderItems, o.shippingAddress, o.paymentMethod,
      o.itemsPrice, o.taxPrice, o.shippingPrice, o.totalPrice>>

PaidFields(o) == <<o.isPaid, o.paidAt, o.paymentResult>>

DeliveryFields(o) == <<o.isDelivered, o.deliveredAt>>

\* C14: no step removes an order or changes its owner, lines, shipping
\* address, payment method, itemsPrice, taxPrice, shippingPrice or totalPrice;
\* markPaid changes only isPaid/paidAt/paymentResult, markDelivered and
\* setStatus only isDelivered/deliveredAt/status, and every other operation
\* (a catalog price update, a cart operation, a read) leaves every order as it
\* was.
C14_OrderImmutable ==
    [][ /\ Len(orders') >= Len(orders)
        /\ \A i \in 1..Len(orders) :
              /\ Immutable(orders'[i]) = Immutable(orders[i])
              /\ req'.op = "markPaid"
                   => /\ DeliveryFields(orders'[i]) = DeliveryFields(orders[i])
                      /\ orders'[i].status = orders[i].status
              /\ req'.op \in { "markDelivered", "setStatus" }
                   => PaidFields(orders'[i]) = PaidFields(orders[i])
              /\ req'.op \notin { "markPaid", "markDelivered", "setStatus" }
                   => orders'[i] = orders[i] ]_vars

\* ann's order was paid and delivered and the catalog price moved to 12: the
\* order still has the lines, prices and owner it was created with
C14_Witness ==
    /\ orders[1].isPaid
    /\ orders[1].isDelivered
    /\ orders[1].status = "shipped"
    /\ products[<<11>>] # Undefined
    /\ products[<<11>>][1].price = 12
    /\ Immutable(orders[1]) = Immutable(PlacedOrders[1])
    /\ orders[1].orderItems = <<LineA, LineB>>
    /\ orders[1].totalPrice = 30

\* C19: markPaid answers 404 when no order has the requested id; for a stored
\* order and any payment payload it sets isPaid, sets paidAt to the current
\* time and stores the payload's id, status, update_time and payer email,
\* and it changes no other order.
C19_MarkPaidStoresPayment ==
    [][ req'.op = "markPaid"
          => LET t == Target(orders, req'.id)
                 body == req'.body
             IN  IF t = Undefined
                 THEN res'.status = 404 /\ orders' = orders
                 ELSE /\ Len(orders') = Len(orders)
                      /\ orders'[t[1]].isPaid
                      /\ orders'[t[1]].paidAt = Some(req'.now)
                      /\ orders'[t[1]].paymentResult =
                            Some([id |-> body.id, status |-> body.status,
                                  update_time |-> body.update_time,
                                  email_address |->
                                      IF body.payer = Undefined THEN Undefined
                                      ELSE body.payer[1].email_address])
                      /\ \A j \in 1..Len(orders) : j # t[1] => orders'[j] = orders[j] ]_vars

\* the part of C19 that holds: a payload with a payer, for a well-formed id
C19_MarkPaidWithPayer ==
    [][ ( /\ req'.op = "markPaid"
          /\ CastObjectId(req'.id) # Undefined
          /\ req'.body.payer # Undefined )
          => LET t == Target(orders, req'.id)
             IN  IF t = Undefined
                 THEN res'.status = 404 /\ orders' = orders
                 ELSE /\ orders'[t[1]] = PaidOrder(orders[t[1]], req'.body, req'.now)
                      /\ \A j \in 1..Len(orders) : j # t[1] => orders'[j] = orders[j] ]_vars

\* the operations registered behind the admin middleware
AdminOnlyOps == { "markDelivered", "setStatus", "listAll", "updateProduct" }

\* C15: an admin-only operation called by an authenticated principal that is
\* no admin is answered 403 and changes nothing.
C15_NonAdminForbidden ==
    [][ (req'.op \in AdminOnlyOps /\ ~Requester(req').isAdmin)
          => /\ res'.status = 403
             /\ orders' = orders
             /\ products' = products ]_vars

\* the part of C15 that holds: the request is turned away (with 401) and the
\* handler does not run
C15_NonAdminTurnedAway ==
    [][ (req'.op \in AdminOnlyOps /\ ~Requester(req').isAdmin)
          => /\ res' = Response(401, "Not authorized as an admin")
             /\ orders' = orders
             /\ products' = products ]_vars

\* the routes registered behind protect
ProtectedOps == { "myOrders", "createOrder", "listAll" }

\* the user whose id a token carries, as a set of at most one user
TokenUser(token) == { u \in Users : OidToString(u._id) = token.id }

\* the gate answered with this status and message and the handler did not run
TurnedAway(status, message) ==
    /\ res'.status = status
    /\ message # "" => res'.message = message
    /\ res'.items = <<>>
    /\ req'.user = Undefined
    /\ orders' = orders

\* the handler of the route ran for the principal u
RanFor(u) ==
    /\ req'.user = Some(u._id)
    /\ req'.op = "myOrders"
         => res' = OrderResponse(200, SelectSeq(orders, LAMBDA o : o.user = u._id))
    /\ req'.op = "createOrder"
         => /\ res'.status = 201
            /\ Len(orders') = Len(orders) + 1
            /\ orders'[Len(orders')].user = u._id
    /\ req'.op = "listAll"
         => IF u.isAdmin THEN res'.status = 200 /\ Len(res'.items) = Len(orders)
            ELSE res'.status = 401

\* C16: a request to a protected route either reaches the handler with the
\* user whose id is in a validly signed, unexpired bearer token, or is turned
\* away without the handler running: 401 'no token' without a bearer header,
\* else 503 while the database is not connected, else 401 'invalid token',
\* 401 'token expired', or 401 for a token whose user does not exist ('user
\* not found' when the id in the token is well formed).
C16_AuthGate ==
    [][ req'.op \in ProtectedOps
          => LET a == req'.authorization
             IN  IF a = Undefined \/ a[1].scheme # "Bearer"
                 THEN TurnedAway(401, "Not authorized, no token")
                 ELSE IF ~req'.dbReady
                 THEN TurnedAway(503, "")
                 ELSE IF a[1].token = Undefined \/ a[1].token[1].sig = "invalid"
                 THEN TurnedAway(401, "Not authorized, invalid token")
                 ELSE IF a[1].token[1].sig = "expired"
                 THEN TurnedAway(401, "Not authorized, token expired")
                 ELSE IF TokenUser(a[1].token[1]) = {}
                 THEN TurnedAway(401, IF CastObjectId(a[1].token[1].id) = Undefined THEN ""
                                      ELSE "Not authorized, user not found")
                 ELSE \E u \in TokenUser(a[1].token[1]) : RanFor(u) ]_vars

\* ann's valid token passed the gate and her order was stored under her id
C16_Witness ==
    /\ req.op = "createOrder"
    /\ req.dbReady
    /\ req.authorization =
          Some([scheme |-> "Bearer", token |-> Some([sig |-> "valid", id |-> <<"1">>])])
    /\ req.user = Some(<<1>>)
    /\ res.status = 201
    /\ orders[Len(orders)].user = <<1>>

\* an expired token was turned away from a route with stored orders
C16_WitnessExpired ==
    /\ req.op = "myOrders"
    /\ req.dbReady
    /\ req.authorization # Undefined
    /\ req.authorization[1].token # Undefined
    /\ req.authorization[1].token[1].sig = "expired"
    /\ res = Response(401, "Not authorized, token expired")
    /\ orders # <<>>

\* the request carries a valid token of an admin and the database is connected
VerifiedAdmin(r) ==
    /\ r.dbReady
    /\ r.authorization # Undefined
    /\ r.authorization[1].scheme = "Bearer"
    /\ r.authorization[1].token # Undefined
    /\ r.authorization[1].token[1].sig = "valid"
    /\ \E u \in TokenUser(r.authorization[1].token[1]) : u.isAdmin

\* C17: a catalog record (product, accessory, full-marine-setup, category) is
\* created, updated or deleted only by a request carrying a verified admin
\* principal.
C17_CatalogAdminOnly ==
    [][ <<setups', products', accessories', categories'>>
            # <<setups, products, accessories, categories>>
          => VerifiedAdmin(req') ]_vars

\* the user has more than one cart document
TwoCarts(cs, userId) == Cardinality({ i \in 1..Len(cs) : cs[i].user = userId }) >= 2

\* some cart has two lines for one product
DuplicatedLine(cs) ==
    \E i \in 1..Len(cs) : \E k, l \in 1..Len(cs[i].items) :
        k # l /\ cs[i].items[k].product = cs[i].items[l].product

\* a line of the cart both requests read ends below its quantity plus both increments
LostIncrement(base, cs, first, second) ==
    \E i \in 1..Len(base) : \E k \in 1..Len(base[i].items) :
        /\ i <= Len(cs) /\ k <= Len(cs[i].items)
        /\ cs[i].items[k].quantity <
              base[i].items[k].quantity + QuantityOrDefault(first) + QuantityOrDefault(second)

\* C20: two addItem requests of one user for one product that both read the
\* cart (or its absence) before either wrote are not mutually excluded: when
\* the second one has written, the collection equals neither serial order of
\* the two calls; it holds two cart documents of the user, a duplicated line,
\* or a line that lost an increment.
C20_AddItemRace ==
    [][ \A slot \in Slots :
          ( /\ inflight[slot] # Idle
            /\ inflight'[slot] = Idle
            /\ req.op = "addItem"
            /\ req.user = Some(inflight[slot].user)
            /\ req.base = inflight[slot].base
            /\ req.body.productId = inflight[slot].body.productId
            /\ carts # inflight[slot].base )
          => LET r == inflight[slot]
                 firstThenSecond == AddItemResult(carts, r.user, r.body).carts
                 secondThenFirst ==
                     AddItemResult(AddItemResult(r.base, r.user, r.body).carts,
                                   r.user, req.body).carts
             IN  /\ carts = AddItemResult(r.base, r.user, req.body).carts
                 /\ res'.status = 201
                 /\ carts' # firstThenSecond
                 /\ carts' # secondThenFirst
                 /\ \/ TwoCarts(carts', r.user)
                    \/ DuplicatedLine(carts')
                    \/ LostIncrement(r.base, carts', req.body, r.body) ]_vars

\* both requests read that ann had no cart, both saved: she has two carts
C20_Witness ==
    /\ \A slot \in Slots : inflight[slot] = Idle
    /\ req.op = "addItem"
    /\ req.base = <<>>
    /\ res.status = 201
    /\ TwoCarts(carts, req.user[1])

\* both requests read a cart without the product, both pushed a line for it
C20_WitnessDuplicate ==
    /\ \A slot \in Slots : inflight[slot] = Idle
    /\ req.op = "addItem"
    /\ res.status = 201
    /\ ~DuplicatedLine(req.base)
    /\ DuplicatedLine(carts)

\* C26: in every state of every order, isDelivered is true exactly when
\* deliveredAt is set, and status = 'delivered' implies isDelivered.
C26_DeliveryConsistent ==
    \A i \in 1..Len(orders) :
        /\ orders[i].isDelivered <=> orders[i].deliveredAt # Undefined
        /\ orders[i].status = "delivered" => orders[i].isDelivered

\* a paid order was marked delivered: flag, date and status agree
C26_Witness ==
    /\ req.op = "markDelivered"
    /\ res.status = 200
    /\ Target(orders, req.id) # Undefined
    /\ orders[Target(orders, req.id)[1]].isPaid
    /\ orders[Target(orders, req.id)[1]].isDelivered
    /\ orders[Target(orders, req.id)[1]].deliveredAt = Some(req.now)
    /\ orders[Target(orders, req.id)[1]].status = "delivered"

\* a delivered order was moved on to 'shipped': it stays delivered and dated
C26_WitnessShipped ==
    /\ req.op = "setStatus"
    /\ req.status = "shipped"
    /\ res.status = 200
    /\ orders[Target(orders, req.id)[1]].isDelivered
    /\ orders[Target(orders, req.id)[1]].deliveredAt # Undefined

\* C27: payment is monotonic: an order with isPaid = true keeps isPaid = true
\* and a set paidAt in every later state, whatever markPaid, markDelivered or
\* setStatus (with any status, 'pending' included) follows.
C27_PaidStaysPaid ==
    [][ /\ Len(orders') >= Len(orders)
        /\ \A i \in 1..Len(orders) :
              orders[i].isPaid => orders'[i].isPaid /\ orders'[i].paidAt # Undefined ]_vars

\* a paid order was set back to 'pending' and is still paid
C27_Witness ==
    /\ req.op = "setStatus"
    /\ req.status = "pending"
    /\ res.status = 200
    /\ Target(orders, req.id) # Undefined
    /\ orders[Target(orders, req.id)[1]].isPaid
    /\ orders[Target(orders, req.id)[1]].paidAt # Undefined
    /\ orders[Target(orders, req.id)[1]].status = "pending"

\* C21: every line of every cart has a quantity that is a positive integer,
\* whatever integer quantities addItem and setQuantity were called with.
C21_QuantitiesPositive ==
    \A i \in 1..Len(carts) : \A k \in 1..Len(carts[i].items) :
        carts[i].items[k].quantity >= 1

\* C22: addReview without a verified bearer principal is answered 401 by the
\* auth gate on every reviewable route, and the item's reviews, rating and
\* numReviews are unchanged.
C22_ReviewNeedsPrincipal ==
    [][ (req'.op \in { "productAddReview", "setupAddReview" } /\ req'.user = Undefined)
          => /\ res'.status = 401
             /\ products' = products
             /\ setups' = setups ]_vars

\* the part of C22 that holds: such a request changes no catalog document
C22_ReviewWithoutPrincipalChangesNothing ==
    [][ (req'.op \in { "productAddReview", "setupAddReview" } /\ req'.user = Undefined)
          => products' = products /\ setups' = setups ]_vars

\* C23: while the database is unavailable every request is answered 503.
C23_UnavailableIs503 ==
    [][ ("dbReady" \in DOMAIN req' /\ ~req'.dbReady) => res'.status = 503 ]_vars

\* the part of C23 that holds: a bearer request to a protected route is
\* answered 503 while the database is unavailable, and nothing changes
C23_BearerUnavailableIs503 ==
    [][ ( /\ req'.op \in ProtectedOps
          /\ ~req'.dbReady
          /\ req'.authorization # Undefined
          /\ req'.authorization[1].scheme = "Bearer" )
          => res'.status = 503 /\ orders' = orders ]_vars

\* C29: for every request, protect either calls next() exactly once and sends
\* no response, or sends exactly one response and never calls next().
C29_ProtectOneOutcome ==
    req.op \in ProtectedOps
      => \/ req.nexts = 1 /\ req.responses = 0 /\ req.user # Undefined
         \/ req.nexts = 0 /\ req.responses = 1 /\ req.user = Undefined

\* a validly signed token whose id is no ObjectId took the catch branch that
\* does not return: one response, 'token failed', and no next()
C29_Witness ==
    /\ req.op \in ProtectedOps
    /\ req.dbReady
    /\ req.authorization # Undefined
    /\ req.authorization[1].token = Some([sig |-> "valid", id |-> <<"g">>])
    /\ req.nexts = 0
    /\ req.responses = 1
    /\ res = Response(401, "Not authorized, token failed")

\* 'Bearer' without a token: the catch returns, `if (!token)` is not reached
C29_WitnessBareBearer ==
    /\ req.op \in ProtectedOps
    /\ req.dbReady
    /\ req.authorization = Some([scheme |-> "Bearer", token |-> Undefined])
    /\ req.nexts = 0
    /\ req.responses = 1
    /\ res = Response(401, "Not authorized, invalid token")

\* the requests that save a user document
SavesUser == { "updateProfile", "setAdmin", "forgotPassword", "verifyOtp" }

\* the request assigned a new password to the document it saved
SetNewPassword(r, response) ==
    /\ response.status = 200
    /\ \/ r.op = "updateProfile" /\ r.body.password # Undefined
       \/ r.op = "verifyOtp"

\* C28: a save of a user whose password was not modified (forgot-password
\* storing a code, the admin-flag update, a profile update without a new
\* password) leaves every stored hash as it was, so the password that
\* authenticated before still does; a stored hash changes only in a request
\* that set a new password, and is then the hash of that password.
C28_HashKeptUnlessNewPassword ==
    [][\A oid \in DOMAIN accounts :
          /\ (req'.op \in SavesUser /\ ~SetNewPassword(req', res'))
                => /\ accounts'[oid].password = accounts[oid].password
                   /\ \A p \in Passwords :
                          MatchPassword(accounts[oid], p) => MatchPassword(accounts'[oid], p)
          /\ accounts'[oid].password # accounts[oid].password
                => /\ SetNewPassword(req', res')
                   /\ \E p \in Passwords : MatchPassword(accounts'[oid], p)]_vars

\* forgot-password stored a code for ann and her password still authenticates
C28_Witness ==
    /\ req.op = "forgotPassword"
    /\ res.status = 200
    /\ accounts[<<1>>].resetPasswordOTP # Undefined
    /\ MatchPassword(accounts[<<1>>], "pw1")

\* the admin flag of ann was set by bob and her password still authenticates
C28_WitnessAdminFlag ==
    /\ req.op = "setAdmin"
    /\ res.status = 200
    /\ accounts[<<1>>].isAdmin
    /\ MatchPassword(accounts[<<1>>], "pw1")

\* a profile update renamed ann without a new password
C28_WitnessProfile ==
    /\ req.op = "updateProfile"
    /\ req.body.password = Undefined
    /\ res.status = 200
    /\ accounts[<<1>>].name = "annie"
    /\ MatchPassword(accounts[<<1>>], "pw1")

\* a profile update with the current password set a new one
C28_WitnessNewPassword ==
    /\ req.op = "updateProfile"
    /\ req.body.password = Some("pw2")
    /\ res.status = 200
    /\ MatchPassword(accounts[<<1>>], "pw2")

\* the account a verify-otp request names by its email
Named(as, r) == { oid \in DOMAIN as : Some(as[oid].email) = r.email }

\* a verify-otp that answered 200 was given the stored code before its expiry
\* and cleared both
AcceptedWithStoredCode ==
    (req'.op = "verifyOtp" /\ res'.status = 200)
        => \E oid \in Named(accounts, req') :
              /\ req'.otp.kind = "text"
              /\ accounts[oid].resetPasswordOTP = Some(req'.otp.value)
              /\ accounts[oid].resetPasswordOTPExpires # Undefined
              /\ accounts[oid].resetPasswordOTPExpires[1] > clock
              /\ accounts'[oid].resetPasswordOTP = Undefined
              /\ accounts'[oid].resetPasswordOTPExpires = Undefined

\* the verify-otp that follows an accepted one with the same email and code
\* is answered 400 and changes no account
SecondRejected ==
    (/\ req.op = "verifyOtp" /\ res.status = 200
     /\ req'.op = "verifyOtp" /\ req'.email = req.email /\ req'.otp = req.otp)
        => (res'.status = 400 /\ accounts' = accounts)

\* C24: verify-otp succeeds only when the submitted code equals the stored
\* code and the stored expiry is in the future; on success the code and the
\* expiry are cleared, so a second verify-otp with the same code is answered
\* 400 and leaves the password unchanged.
C24_OtpOnceBeforeExpiry == [][AcceptedWithStoredCode /\ SecondRejected]_vars

\* C24, for requests whose otp is a text: the claim as stated
C24_TextOtpOnceBeforeExpiry ==
    [][(req'.op = "verifyOtp" /\ req'.otp.kind = "text")
          => (AcceptedWithStoredCode /\ SecondRejected)]_vars

\* a text code was accepted and cleared
C24_WitnessAccepted ==
    /\ req.op = "verifyOtp"
    /\ req.otp.kind = "text"
    /\ res.status = 200
    /\ accounts[<<1>>].resetPasswordOTP = Undefined
    /\ MatchPassword(accounts[<<1>>], "pw2")

\* a stored code outlived its expiry and was refused
C24_WitnessExpired ==
    /\ req.op = "verifyOtp"
    /\ req.otp.kind = "text"
    /\ accounts[<<1>>].resetPasswordOTP = Some(req.otp.value)
    /\ accounts[<<1>>].resetPasswordOTPExpires = Some(clock)
    /\ res.status = 400

\* the items are in descending order of rating
SortedByRating(items) == \A i, j \in 1..Len(items) : i < j => RatedAtLeast(items[i], items[j])

\* C25: GET '/top' on the product and full-marine-setup routers is dispatched
\* to the top-rated handler, which answers at most 3 items sorted by rating in
\* descending order; it is not handled by '/:id'.
C25_TopDispatched ==
    [][(req'.op = "get" /\ req'.path = <<Top>>)
          => /\ req'.handler = Some("top")
             /\ res'.status = 200
             /\ Len(res'.items) <= 3
             /\ SortedByRating(res'.items)]_vars
====
